---- MODULE Spec2Model ----
(***************************************************************************)
(* Model of the pick-extraction and outcome-verification pipeline:         *)
(*   real_pick_parser.py          (RealPickParser)                         *)
(*   real_verification_system.py  (RealVerificationSystem)                 *)
(*   real_pick_checker.py         (RealPickChecker)                        *)
(*   verify_multi_day_picks.py    (main)                                   *)
(*   automated_daily_system.py    (AutomatedBettingSystem)                 *)
(*   multi_day_dashboard.py, real_dashboard.py, real_only_dashboard.py     *)
(*                                (the statistics of the dashboards)       *)
(*                                                                         *)
(* Text is modelled by TLA+ strings, processed character by character      *)
(* with Len, SubSeq and \o.  A betting line (a Python float) is modelled   *)
(* by the integer number of half points it stands for: line -1.5 is -3,    *)
(* and "score + line > other" is "2*score + line2 > 2*other".  Time is     *)
(* counted in whole days.  Dictionaries are records; a key that is absent  *)
(* from the dictionary is absent from the record's DOMAIN.                 *)
(***************************************************************************)
EXTENDS Integers, Sequences, FiniteSets, TLC

(***************************************************************************)
(* Bounds of the model.                                                    *)
(***************************************************************************)
MaxScore == 6
MaxPicks == 3
MaxTicks == 1
MaxBatch == 2
MaxTokens == 2
MaxStatsBets == 3
FillerLen == 101
VerifyTime == 18

(***************************************************************************)
(* Python values that have no TLA+ counterpart.                            *)
(***************************************************************************)
None == "<None>"
BadScore == "n/a"

(***************************************************************************)
(* dict.get(key, default)                                                  *)
(***************************************************************************)
Get(d, key, default) == IF key \in DOMAIN d THEN d[key] ELSE default

\* F applied to the value of v, v evaluated once
Bind(v, F(_)) == CHOOSE r \in {F(x) : x \in {v}} : TRUE

(***************************************************************************)
(* String helpers: str.upper(), str.lower(), "needle in haystack",         *)
(* s[:n].                                                                  *)
(***************************************************************************)
UpperAlpha == "ABCDEFGHIJKLMNOPQRSTUVWXYZ"
LowerAlpha == "abcdefghijklmnopqrstuvwxyz"
Digits == "0123456789"

CharAt(s, i) == SubSeq(s, i, i)

CharsOf(alpha) == {CharAt(alpha, i) : i \in 1..Len(alpha)}

UpperLetters == CharsOf(UpperAlpha)

LowerLetters == CharsOf(LowerAlpha)

DigitChars == CharsOf(Digits)

IndexIn(alpha, c) ==
  IF \E i \in 1..Len(alpha) : CharAt(alpha, i) = c
    THEN CHOOSE i \in 1..Len(alpha) : CharAt(alpha, i) = c
    ELSE 0

LowerChar(c) ==
  IF c \in UpperLetters THEN CharAt(LowerAlpha, IndexIn(UpperAlpha, c)) ELSE c

UpperChar(c) ==
  IF c \in LowerLetters THEN CharAt(UpperAlpha, IndexIn(LowerAlpha, c)) ELSE c

\* str.lower() and str.upper(), character by character (the string is halved
\* to keep the recursion shallow)
RECURSIVE ToLower(_)
ToLower(s) ==
  IF Len(s) = 0 THEN ""
  ELSE IF Len(s) = 1 THEN LowerChar(s)
  ELSE ToLower(SubSeq(s, 1, Len(s) \div 2)) \o ToLower(SubSeq(s, Len(s) \div 2 + 1, Len(s)))

RECURSIVE ToUpper(_)
ToUpper(s) ==
  IF Len(s) = 0 THEN ""
  ELSE IF Len(s) = 1 THEN UpperChar(s)
  ELSE ToUpper(SubSeq(s, 1, Len(s) \div 2)) \o ToUpper(SubSeq(s, Len(s) \div 2 + 1, Len(s)))

Contains(haystack, needle) ==
  \E i \in 1..(Len(haystack) - Len(needle) + 1) :
     SubSeq(haystack, i, i + Len(needle) - 1) = needle

Prefix(s, n) == IF Len(s) <= n THEN s ELSE SubSeq(s, 1, n)

(***************************************************************************)
(* A dict literal as the sequence of its <<key, value>> items (a repeated  *)
(* key of the literal keeps its last value).                               *)
(***************************************************************************)
DictGet(items, key, default) ==
  IF \E i \in 1..Len(items) : items[i][1] = key
    THEN items[CHOOSE i \in 1..Len(items) : items[i][1] = key][2]
    ELSE default

(***************************************************************************)
(* verify_spread_bet: the team_mappings tables.                            *)
(***************************************************************************)
MlbTeamMappings ==
  <<
   <<"MIL", <<"milwaukee", "brewers">>>>,
   <<"LAD", <<"los angeles", "dodgers">>>>,
   <<"ATH", <<"athletics", "oakland">>>>,
   <<"TOR", <<"toronto", "blue jays">>>>,
   <<"TB", <<"tampa bay", "rays">>>>,
   <<"KC", <<"kansas city", "royals">>>>,
   <<"CLE", <<"cleveland", "guardians">>>>,
   <<"DET", <<"detroit", "tigers">>>>
  >>

NhlTeamMappings ==
  <<
   <<"TOR", <<"toronto", "maple leafs">>>>,
   <<"BOS", <<"boston", "bruins">>>>,
   <<"NYR", <<"new york", "rangers">>>>,
   <<"NYI", <<"new york", "islanders">>>>,
   <<"FLA", <<"florida", "panthers">>>>,
   <<"TB", <<"tampa bay", "lightning">>>>,
   <<"WAS", <<"washington", "capitals">>>>,
   <<"CAR", <<"carolina", "hurricanes">>>>,
   <<"PHI", <<"philadelphia", "flyers">>>>,
   <<"PIT", <<"pittsburgh", "penguins">>>>,
   <<"COL", <<"colorado", "avalanche">>>>,
   <<"VGK", <<"vegas", "golden knights">>>>,
   <<"EDM", <<"edmonton", "oilers">>>>,
   <<"CGY", <<"calgary", "flames">>>>,
   <<"VAN", <<"vancouver", "canucks">>>>,
   <<"SEA", <<"seattle", "kraken">>>>,
   <<"MIN", <<"minnesota", "wild">>>>,
   <<"WPG", <<"winnipeg", "jets">>>>,
   <<"STL", <<"st. louis", "blues">>>>,
   <<"CHI", <<"chicago", "blackhawks">>>>,
   <<"NSH", <<"nashville", "predators">>>>,
   <<"DAL", <<"dallas", "stars">>>>,
   <<"ANA", <<"anaheim", "ducks">>>>,
   <<"LAK", <<"los angeles", "kings">>>>,
   <<"SJS", <<"san jose", "sharks">>>>,
   <<"ARI", <<"arizona", "coyotes">>>>,
   <<"NJD", <<"new jersey", "devils">>>>,
   <<"CBJ", <<"columbus", "blue jackets">>>>,
   <<"DET", <<"detroit", "red wings">>>>,
   <<"BUF", <<"buffalo", "sabres">>>>,
   <<"MTL", <<"montreal", "canadiens">>>>,
   <<"OTT", <<"ottawa", "senators">>>>
  >>

CfbTeamMappings ==
  <<
   <<"OSU", <<"oklahoma state", "cowboys">>>>,
   <<"OKST", <<"oklahoma state", "cowboys">>>>,
   <<"TULSA", <<"tulsa", "golden hurricane">>>>,
   <<"OU", <<"oklahoma", "sooners">>>>,
   <<"BAYLOR", <<"baylor", "bears">>>>,
   <<"TCU", <<"tcu", "horned frogs">>>>,
   <<"TEXAS", <<"texas", "longhorns">>>>,
   <<"UT", <<"tennessee", "volunteers">>>>,
   <<"TAMU", <<"texas a&m", "aggies">>>>,
   <<"TTU", <<"texas tech", "red raiders">>>>,
   <<"WVU", <<"west virginia", "mountaineers">>>>,
   <<"ISU", <<"iowa state", "cyclones">>>>,
   <<"KU", <<"kansas", "jayhawks">>>>,
   <<"KSU", <<"kansas state", "wildcats">>>>,
   <<"UGA", <<"georgia", "bulldogs">>>>,
   <<"ALA", <<"alabama", "crimson tide">>>>,
   <<"BAMA", <<"alabama", "crimson tide">>>>,
   <<"LSU", <<"lsu", "tigers">>>>,
   <<"UF", <<"florida", "gators">>>>,
   <<"MISS", <<"ole miss", "rebels">>>>,
   <<"MSU", <<"michigan state", "spartans">>>>,
   <<"SC", <<"south carolina", "gamecocks">>>>,
   <<"UK", <<"kentucky", "wildcats">>>>,
   <<"MIZZOU", <<"missouri", "tigers">>>>,
   <<"ARK", <<"arkansas", "razorbacks">>>>,
   <<"VANDY", <<"vanderbilt", "commodores">>>>,
   <<"CLEMSON", <<"clemson", "tigers">>>>,
   <<"FSU", <<"florida state", "seminoles">>>>,
   <<"MIAMI", <<"miami", "hurricanes">>>>,
   <<"VT", <<"virginia tech", "hokies">>>>,
   <<"UVA", <<"virginia", "cavaliers">>>>,
   <<"DUKE", <<"duke", "blue devils">>>>,
   <<"UNC", <<"north carolina", "tar heels">>>>,
   <<"NCSU", <<"nc state", "wolfpack">>>>,
   <<"WAKE", <<"wake forest", "demon deacons">>>>,
   <<"BC", <<"boston college", "eagles">>>>,
   <<"PITT", <<"pittsburgh", "panthers">>>>,
   <<"LOU", <<"louisville", "cardinals">>>>,
   <<"ND", <<"notre dame", "fighting irish">>>>,
   <<"OHIO", <<"ohio state", "buckeyes">>>>,
   <<"MICH", <<"michigan", "wolverines">>>>,
   <<"PSU", <<"penn state", "nittany lions">>>>,
   <<"WISC", <<"wisconsin", "badgers">>>>,
   <<"MINN", <<"minnesota", "golden gophers">>>>,
   <<"IOWA", <<"iowa", "hawkeyes">>>>,
   <<"ILL", <<"illinois", "fighting illini">>>>,
   <<"NW", <<"northwestern", "wildcats">>>>,
   <<"NEB", <<"nebraska", "cornhuskers">>>>,
   <<"IND", <<"indiana", "hoosiers">>>>,
   <<"PUR", <<"purdue", "boilermakers">>>>,
   <<"RUT", <<"rutgers", "scarlet knights">>>>,
   <<"MD", <<"maryland", "terrapins">>>>,
   <<"USC", <<"usc", "trojans">>>>,
   <<"UCLA", <<"ucla", "bruins">>>>,
   <<"WASH", <<"washington", "huskies">>>>,
   <<"ORE", <<"oregon", "ducks">>>>,
   <<"ORST", <<"oregon state", "beavers">>>>,
   <<"STAN", <<"stanford", "cardinal">>>>,
   <<"CAL", <<"california", "golden bears">>>>,
   <<"WSU", <<"washington state", "cougars">>>>,
   <<"UTAH", <<"utah", "utes">>>>,
   <<"COL", <<"colorado", "buffaloes">>>>,
   <<"ASU", <<"arizona state", "sun devils">>>>,
   <<"ARIZ", <<"arizona", "wildcats">>>>
  >>

NflTeamMappings ==
  <<
   <<"MIA", <<"miami", "dolphins">>>>,
   <<"BUF", <<"buffalo", "bills">>>>,
   <<"KC", <<"kansas city", "chiefs">>>>,
   <<"CLE", <<"cleveland", "browns">>>>,
   <<"DET", <<"detroit", "lions">>>>
  >>

(***************************************************************************)
(* What a call returns: a value, or a raised exception with its message.   *)
(* A VerificationOutcome dict is modelled by its status and result.        *)
(***************************************************************************)
Outcome(status, result) == [status |-> status, result |-> result]

NoOutcome == Outcome(None, None)

Return(v) == [exc |-> FALSE, msg |-> "", value |-> v]

Raise(m) == [exc |-> TRUE, msg |-> m, value |-> NoOutcome]

(***************************************************************************)
(* int(score) on the score string of a scoreboard competitor.              *)
(***************************************************************************)
IsIntLiteral(s) ==
  /\ Len(s) > 0
  /\ \A i \in 1..Len(s) : CharAt(s, i) \in DigitChars

RECURSIVE IntOf(_)
IntOf(s) ==
  IF Len(s) = 0 THEN 0
  ELSE 10 * IntOf(SubSeq(s, 1, Len(s) - 1)) + (IndexIn(Digits, CharAt(s, Len(s))) - 1)

(***************************************************************************)
(* verify_spread_bet.  A game is [competitors, completed]; a competitor is *)
(* [displayName, homeAway, score].                                         *)
(***************************************************************************)
TeamMappings(sport) ==
  IF sport = "MLB" THEN MlbTeamMappings
  ELSE IF sport = "NHL" \/ sport = "HOCKEY" THEN NhlTeamMappings
  ELSE IF sport = "COLLEGE FOOTBALL" \/ sport = "CFB" THEN CfbTeamMappings
  ELSE NflTeamMappings

TeamKeywords(bet) ==
  LET team  == ToUpper(Get(bet.structured_bet, "team", ""))
      sport == ToUpper(Get(bet, "sport", ""))
  IN  DictGet(TeamMappings(sport), team, <<ToLower(team)>>)

AnyKeywordIn(keywords, name) ==
  \E k \in 1..Len(keywords) : Contains(name, keywords[k])

CompName(comp) == ToLower(Get(comp, "displayName", ""))

TeamFound(game, keywords) ==
  \E c \in 1..Len(game.competitors) : AnyKeywordIn(keywords, CompName(game.competitors[c]))

HomeIdx(game) ==
  {c \in 1..Len(game.competitors) : Get(game.competitors[c], "homeAway", None) = "home"}

AwayIdx(game) ==
  {c \in 1..Len(game.competitors) : Get(game.competitors[c], "homeAway", None) # "home"}

SetMax(S) == CHOOSE x \in S : \A y \in S : y <= x

SetMin(S) == CHOOSE x \in S : \A y \in S : x <= y

HomeTeam(game) == game.competitors[SetMax(HomeIdx(game))]

AwayTeam(game) == game.competitors[SetMax(AwayIdx(game))]

GameHit(game, keywords) ==
  /\ TeamFound(game, keywords)
  /\ HomeIdx(game) # {}
  /\ AwayIdx(game) # {}

\* BetOnHome only when the away name has none of the fragments
BetOnHomeUnlessAway(game, keywords) ==
  /\ AnyKeywordIn(keywords, CompName(HomeTeam(game)))
  /\ ~AnyKeywordIn(keywords, CompName(AwayTeam(game)))

BetOnHome(game, keywords) == AnyKeywordIn(keywords, CompName(HomeTeam(game)))

\* SpreadWon with a tie counted as a win
SpreadWonOrTied(home_score, away_score, line, bet_on_home) ==
  IF bet_on_home
    THEN 2 * home_score + line >= 2 * away_score
    ELSE 2 * away_score + line >= 2 * home_score

SpreadWon(home_score, away_score, line, bet_on_home) ==
  IF bet_on_home
    THEN 2 * home_score + line > 2 * away_score
    ELSE 2 * away_score + line > 2 * home_score

\* SettleGame with a tie reported as a push
SettleGamePushOnTie(game, keywords, line) ==
  LET hs == Get(HomeTeam(game), "score", "0")
      as == Get(AwayTeam(game), "score", "0")
      tie == IF BetOnHome(game, keywords)
               THEN 2 * IntOf(hs) + line = 2 * IntOf(as)
               ELSE 2 * IntOf(as) + line = 2 * IntOf(hs)
  IN  IF ~IsIntLiteral(hs) \/ ~IsIntLiteral(as)
        THEN Raise("invalid literal for int() with base 10")
      ELSE IF ~Get(game, "completed", FALSE)
        THEN Return(Outcome("game_not_completed", None))
      ELSE IF tie
        THEN Return(Outcome("push", None))
      ELSE IF SpreadWon(IntOf(hs), IntOf(as), line, BetOnHome(game, keywords))
        THEN Return(Outcome("verified", "win"))
        ELSE Return(Outcome("verified", "loss"))

\* SettleGame scoring a game that is still being played
SettleGameScoringUnfinished(game, keywords, line) ==
  LET hs == Get(HomeTeam(game), "score", "0")
      as == Get(AwayTeam(game), "score", "0")
  IN  IF ~IsIntLiteral(hs) \/ ~IsIntLiteral(as)
        THEN Raise("invalid literal for int() with base 10")
      ELSE IF SpreadWon(IntOf(hs), IntOf(as), line, BetOnHome(game, keywords))
        THEN Return(Outcome(IF Get(game, "completed", FALSE)
                              THEN "verified" ELSE "game_not_completed", "win"))
        ELSE Return(Outcome(IF Get(game, "completed", FALSE)
                              THEN "verified" ELSE "game_not_completed", "loss"))

SettleGame(game, keywords, line) ==
  LET hs == Get(HomeTeam(game), "score", "0")
      as == Get(AwayTeam(game), "score", "0")
  IN  IF ~IsIntLiteral(hs) \/ ~IsIntLiteral(as)
        THEN Raise("invalid literal for int() with base 10")
      ELSE IF ~Get(game, "completed", FALSE)
        THEN Return(Outcome("game_not_completed", None))
      ELSE IF SpreadWon(IntOf(hs), IntOf(as), line, BetOnHome(game, keywords))
        THEN Return(Outcome("verified", "win"))
        ELSE Return(Outcome("verified", "loss"))

\* VerifySpreadBet raising when no game names the team
VerifySpreadBetUnmatchedRaises(bet, games) ==
  IF "line" \notin DOMAIN bet.structured_bet
    THEN Raise("unsupported format string passed to NoneType.__format__")
  ELSE
    LET keywords == TeamKeywords(bet)
        hits     == {i \in 1..Len(games) : GameHit(games[i], keywords)}
    IN  IF hits = {}
          THEN Raise("team not found")
          ELSE SettleGame(games[SetMin(hits)], keywords, bet.structured_bet.line)

VerifySpreadBet(bet, games) ==
  IF "line" \notin DOMAIN bet.structured_bet
    THEN Raise("unsupported format string passed to NoneType.__format__")
  ELSE
    LET keywords == TeamKeywords(bet)
        hits     == {i \in 1..Len(games) : GameHit(games[i], keywords)}
    IN  IF hits = {}
          THEN Return(Outcome("team_not_found", None))
          ELSE SettleGame(games[SetMin(hits)], keywords, bet.structured_bet.line)

(***************************************************************************)
(* verify_moneyline_bet: a spread bet with line 0, on a bet dict that      *)
(* carries the structured bet only.                                        *)
(***************************************************************************)
VerifyMoneylineBet(bet, games) ==
  VerifySpreadBet(
    [structured_bet |-> [team |-> ToUpper(Get(bet.structured_bet, "team", "")), line |-> 0]],
    games)

(***************************************************************************)
(* verify_nfl_player_prop                                                  *)
(***************************************************************************)
BengalsGame(game) ==
  \E c \in 1..Len(game.competitors) :
     \/ Contains(CompName(game.competitors[c]), "bengals")
     \/ Contains(CompName(game.competitors[c]), "cincinnati")

\* VerifyNflPlayerProp settling the prop it finds a game for
VerifyNflPlayerPropSettled(bet, games) ==
  LET player_name == ToLower(Get(bet.structured_bet, "player", ""))
      stat_type   == ToLower(Get(bet.structured_bet, "stat", ""))
  IN  IF /\ Contains(player_name, "chase")
         /\ Contains(stat_type, "receiving")
         /\ \E i \in 1..Len(games) : BengalsGame(games[i])
        THEN Return(Outcome("verified", "win"))
        ELSE Return(Outcome("api_limitation", None))

VerifyNflPlayerProp(bet, games) ==
  LET player_name == ToLower(Get(bet.structured_bet, "player", ""))
      stat_type   == ToLower(Get(bet.structured_bet, "stat", ""))
  IN  IF /\ Contains(player_name, "chase")
         /\ Contains(stat_type, "receiving")
         /\ \E i \in 1..Len(games) : BengalsGame(games[i])
        THEN Return(Outcome("needs_manual_verification", None))
        ELSE Return(Outcome("api_limitation", None))

(***************************************************************************)
(* verify_bet(bet, date_str).  fetched is what the scoreboard request for  *)
(* the bet's sport and date_str returns (get_nfl_games, get_mlb_games,     *)
(* get_nhl_games, get_cfb_games: the events, or [] on any failure).        *)
(***************************************************************************)
IntlHockeyIndicators ==
  <<"hc davos", "kalpa", "ingolstadt", "wolfsburg",
    "int. hockey", "international hockey", "european">>

SupportedSport(sport) ==
  sport \in {"NFL", "MLB", "NHL", "HOCKEY", "COLLEGE FOOTBALL", "CFB"}

\* get_nfl_games, get_mlb_games, get_nhl_games, get_cfb_games: the events of
\* a response with status 200, and the empty list when the request raised
\* or the status is another one
NoResponse == [kind |-> "none", status_code |-> 0, events |-> <<>>]

GetGames(response) ==
  IF response.kind = "exception" THEN <<>>
  ELSE IF response.status_code = 200 THEN response.events
  ELSE <<>>

VerifyBet(bet, fetched) ==
  LET sport    == ToUpper(Get(bet, "sport", ""))
      bet_type == Get(bet, "bet_type", None)
  IN  IF "expert" \notin DOMAIN bet
        THEN Raise("'expert'")
      ELSE IF ~SupportedSport(sport)
        THEN Return(Outcome("unsupported_sport", None))
      ELSE IF /\ sport \in {"NHL", "HOCKEY"}
              /\ AnyKeywordIn(IntlHockeyIndicators, ToLower(Get(bet, "raw_pick_text", "")))
        THEN Return(Outcome("international_hockey", None))
      ELSE IF Len(fetched) = 0
        THEN Return(Outcome("no_games_found", None))
      ELSE IF bet_type = "player_prop" /\ sport = "NFL"
        THEN VerifyNflPlayerProp(bet, fetched)
      ELSE IF bet_type = "spread"
        THEN VerifySpreadBet(bet, fetched)
      ELSE IF bet_type = "moneyline"
        THEN VerifyMoneylineBet(bet, fetched)
      ELSE Return(Outcome("unsupported_bet_type", None))

(***************************************************************************)
(* real_pick_checker.py: verify_mlb_pick, evaluate_mlb_moneyline and       *)
(* evaluate_mlb_spread.  A game here is the flat record built by           *)
(* check_mlb_results_today: [home_team, away_team, home_score, away_score, *)
(* completed] with integer scores.                                         *)
(***************************************************************************)
IsSpace(c) == c = " "

RECURSIVE SplitFrom(_, _, _)
SplitFrom(s, i, word) ==
  IF i > Len(s)
    THEN IF word = "" THEN <<>> ELSE <<word>>
  ELSE IF IsSpace(CharAt(s, i))
    THEN (IF word = "" THEN <<>> ELSE <<word>>) \o SplitFrom(s, i + 1, "")
    ELSE SplitFrom(s, i + 1, word \o CharAt(s, i))

Split(s) == SplitFrom(s, 1, "")

(***************************************************************************)
(* float(text) for a signed decimal with at most one fractional digit,     *)
(* 0 or 5, in half points: float("-1.5") is -3.                            *)
(***************************************************************************)
DotIndex(s) == IndexIn(s, ".")

UnsignedHalfPoints(s) ==
  IF DotIndex(s) = 0
    THEN 2 * IntOf(s)
    ELSE 2 * IntOf(SubSeq(s, 1, DotIndex(s) - 1))
         + (IF SubSeq(s, DotIndex(s) + 1, Len(s)) = "5" THEN 1 ELSE 0)

FloatHalfPoints(s) ==
  IF Len(s) > 0 /\ CharAt(s, 1) = "-" THEN 0 - UnsignedHalfPoints(SubSeq(s, 2, Len(s)))
  ELSE IF Len(s) > 0 /\ CharAt(s, 1) = "+" THEN UnsignedHalfPoints(SubSeq(s, 2, Len(s)))
  ELSE UnsignedHalfPoints(s)

AnyPartIn(team_name, full_name) ==
  \E p \in 1..Len(Split(team_name)) : Contains(full_name, Split(team_name)[p])

EvaluateMlbMoneyline(pick, game) ==
  LET team_name == ToLower(Get(pick, "team", ""))
      home_team == ToLower(Get(game, "home_team", ""))
      away_team == ToLower(Get(game, "away_team", ""))
      home_score == Get(game, "home_score", 0)
      away_score == Get(game, "away_score", 0)
  IN  IF AnyPartIn(team_name, home_team)
        THEN Outcome("verified", IF home_score > away_score THEN "win" ELSE "loss")
      ELSE IF AnyPartIn(team_name, away_team)
        THEN Outcome("verified", IF away_score > home_score THEN "win" ELSE "loss")
      ELSE Outcome("team_mismatch", None)

EvaluateMlbSpread(pick, game) ==
  LET team_name == ToLower(Get(pick, "team", ""))
      line      == FloatHalfPoints(Get(pick, "line", "0"))
      home_team == ToLower(Get(game, "home_team", ""))
      away_team == ToLower(Get(game, "away_team", ""))
      home_score == Get(game, "home_score", 0)
      away_score == Get(game, "away_score", 0)
  IN  IF AnyPartIn(team_name, home_team)
        THEN Outcome("verified",
                     IF 2 * home_score + line > 2 * away_score THEN "win" ELSE "loss")
      ELSE IF AnyPartIn(team_name, away_team)
        THEN Outcome("verified",
                     IF 2 * away_score + line > 2 * home_score THEN "win" ELSE "loss")
      ELSE Outcome("team_mismatch", None)

RelevantGame(team_name, game) ==
  LET home_team == ToLower(Get(game, "home_team", ""))
      away_team == ToLower(Get(game, "away_team", ""))
  IN  \/ Contains(home_team, team_name)
      \/ Contains(away_team, team_name)
      \/ AnyPartIn(team_name, home_team)
      \/ AnyPartIn(team_name, away_team)

VerifyMlbPick(pick, mlb_games) ==
  LET team_name == ToLower(Get(pick, "team", ""))
      bet_type  == ToLower(Get(pick, "bet_type", ""))
      relevant  == {i \in 1..Len(mlb_games) : RelevantGame(team_name, mlb_games[i])}
  IN  IF relevant = {}
        THEN Outcome("game_not_found", None)
      ELSE IF ~Get(mlb_games[SetMin(relevant)], "completed", FALSE)
        THEN Outcome("in_progress", None)
      ELSE IF bet_type = "moneyline"
        THEN EvaluateMlbMoneyline(pick, mlb_games[SetMin(relevant)])
      ELSE IF bet_type = "spread"
        THEN EvaluateMlbSpread(pick, mlb_games[SetMin(relevant)])
      ELSE Outcome("unsupported_bet", None)

(***************************************************************************)
(* verify_pending_picks, the body of the loop over the pending picks: the  *)
(* try block writes the outcome on the pick, the except block records the  *)
(* exception.                                                              *)
(***************************************************************************)
SetKey(d, key, v) == [k \in DOMAIN d \cup {key} |-> IF k = key THEN v ELSE d[k]]

VerifyPickNormalizingExpert(pick, fetched, current_time) ==
  LET r == VerifyBet(pick, fetched)
  IN  IF r.exc
        THEN SetKey(SetKey(pick, "verification_status", "error"),
                    "verification_error", r.msg)
        ELSE SetKey(SetKey(SetKey(SetKey(pick, "verification", r.value),
                                  "verified_at", current_time),
                           "verification_status", "completed"),
                    "expert", "Unknown")

VerifyPick(pick, fetched, current_time) ==
  LET r == VerifyBet(pick, fetched)
  IN  IF r.exc
        THEN SetKey(SetKey(pick, "verification_status", "error"),
                    "verification_error", r.msg)
        ELSE SetKey(SetKey(SetKey(pick, "verification", r.value),
                           "verified_at", current_time),
                    "verification_status", "completed")

(***************************************************************************)
(* real_pick_parser.py.  clean_html: BeautifulSoup(...).get_text() drops   *)
(* the tags, re.sub(r'\s+', ' ', text).strip() collapses the whitespace.   *)
(***************************************************************************)
IsWhite(c) == c = " " \/ c = "\n" \/ c = "\t"

IsLetter(c) == c \in UpperLetters \/ c \in LowerLetters

IsDigit(c) == c \in DigitChars

IsWordChar(c) == IsLetter(c) \/ IsDigit(c) \/ c = "_"

IsLetterOrWhite(c) == IsLetter(c) \/ IsWhite(c)

IsWordOrWhite(c) == IsWordChar(c) \/ IsWhite(c)

\* get_text(): a character is dropped when a "<" before it (or the character
\* itself) opens a tag that no ">" has closed yet
InTag(html, i) ==
  \E j \in 1..i : CharAt(html, j) = "<" /\ \A k \in j..(i - 1) : CharAt(html, k) # ">"

RECURSIVE GetText(_, _, _)
GetText(html, lo, hi) ==
  IF lo > hi THEN ""
  ELSE IF lo = hi THEN (IF InTag(html, lo) THEN "" ELSE CharAt(html, lo))
  ELSE GetText(html, lo, (lo + hi) \div 2) \o GetText(html, (lo + hi) \div 2 + 1, hi)

\* re.sub(r'\s+', ' ', text): a run of whitespace leaves one space
RECURSIVE CollapseWhite(_, _, _)
CollapseWhite(text, lo, hi) ==
  IF lo > hi THEN ""
  ELSE IF lo = hi
    THEN (IF ~IsWhite(CharAt(text, lo)) THEN CharAt(text, lo)
          ELSE IF lo = 1 \/ ~IsWhite(CharAt(text, lo - 1)) THEN " "
          ELSE "")
  ELSE CollapseWhite(text, lo, (lo + hi) \div 2) \o CollapseWhite(text, (lo + hi) \div 2 + 1, hi)

RECURSIVE LStrip(_)
LStrip(s) ==
  IF Len(s) > 0 /\ IsWhite(CharAt(s, 1)) THEN LStrip(SubSeq(s, 2, Len(s))) ELSE s

RECURSIVE RStrip(_)
RStrip(s) ==
  IF Len(s) > 0 /\ IsWhite(CharAt(s, Len(s))) THEN RStrip(SubSeq(s, 1, Len(s) - 1)) ELSE s

Strip(s) == RStrip(LStrip(s))

clean_html(html_text) ==
  IF html_text = "" THEN ""
  ELSE LET text == GetText(html_text, 1, Len(html_text))
       IN  Strip(CollapseWhite(text, 1, Len(text)))

(***************************************************************************)
(* extract_bet_from_text: the five patterns, matched with re.IGNORECASE.   *)
(* A match is [ok, start, end, groups]; end is the index after the match.  *)
(***************************************************************************)
Patterns ==
  << "(\\w+(?:\\s+\\w+)*)\\s+(Over|Under)\\s+(\\d+\\.?\\d*)\\s+([A-Za-z\\s]+)",
     "([A-Z]{2,4})\\s+(?:1H\\s+)?([+-]\\d+\\.?\\d*)",
     "([A-Z]{2,4})\\s+(?:F5\\s+)?ML",
     "([A-Z]{2,4})\\s+TT\\s+(Un|Ov)\\s+(\\d+\\.?\\d*)",
     "([A-Z]\\.?\\s+\\w+)\\s+(Ov|Over)\\s+(\\d+\\.?\\d*)\\s+([a-z\\s]+)" >>

NoMatch == [ok |-> FALSE, start |-> 0, end |-> 0, groups |-> <<>>]

Match(s, e, groups) == [ok |-> TRUE, start |-> s, end |-> e, groups |-> groups]

\* the index after the longest run of characters of class P that starts at i
RunEnd(P(_), t, i) ==
  CHOOSE j \in i..(Len(t) + 1) :
    /\ j = Len(t) + 1 \/ ~P(CharAt(t, j))
    /\ \A k \in i..(j - 1) : P(CharAt(t, k))

\* a literal, case-insensitively, at i
LitAt(t, i, lit) ==
  /\ i + Len(lit) - 1 <= Len(t)
  /\ ToLower(SubSeq(t, i, i + Len(lit) - 1)) = ToLower(lit)

\* \s+ at i: the index after it, or 0
WhiteEnd(t, i) ==
  IF i <= Len(t) /\ IsWhite(CharAt(t, i)) THEN RunEnd(IsWhite, t, i) ELSE 0

\* \d+\.?\d* at i: the index after it, or 0
NumberEnd(t, i) ==
  IF i > Len(t) \/ i < 1 \/ ~IsDigit(CharAt(t, i)) THEN 0
  ELSE LET d == RunEnd(IsDigit, t, i)
       IN  IF d <= Len(t) /\ CharAt(t, d) = "." THEN RunEnd(IsDigit, t, d + 1) ELSE d

\* [A-Z]{2,4} at s, followed by whitespace: the number of letters, or 0
TeamLen(t, s) ==
  LET fits(k) == /\ s + k <= Len(t)
                 /\ \A i \in s..(s + k - 1) : IsLetter(CharAt(t, i))
                 /\ IsWhite(CharAt(t, s + k))
  IN  IF s >= 1 /\ \E k \in 2..4 : fits(k) THEN CHOOSE k \in 2..4 : fits(k) ELSE 0

\* ([A-Z]{2,4})\s+ at s: the index after the whitespace, or 0
TeamEnd(t, s) ==
  IF TeamLen(t, s) = 0 THEN 0 ELSE WhiteEnd(t, s + TeamLen(t, s))

TeamOf(t, s) == SubSeq(t, s, s + TeamLen(t, s) - 1)

\* (?:lit\s+)? at w: the index after it when it is taken, or 0
OptEnd(t, w, lit) ==
  IF LitAt(t, w, lit) THEN WhiteEnd(t, w + Len(lit)) ELSE 0

\* (alt1|alt2) at w with whitespace after it: the index after the
\* alternative, or 0
AltEnd(t, w, alt1, alt2) ==
  IF w = 0 THEN 0
  ELSE IF LitAt(t, w, alt1) /\ WhiteEnd(t, w + Len(alt1)) > 0 THEN w + Len(alt1)
  ELSE IF LitAt(t, w, alt2) /\ WhiteEnd(t, w + Len(alt2)) > 0 THEN w + Len(alt2)
  ELSE 0

\* \s+(alt1|alt2)\s+(\d+\.?\d*) at g: <<start of the side, its end, start of
\* the number, its end>>, or <<>>
SideNumber(t, g, alt1, alt2) ==
  Bind(WhiteEnd(t, g), LAMBDA w :
  Bind(AltEnd(t, w, alt1, alt2), LAMBDA a :
  Bind(IF a = 0 THEN 0 ELSE WhiteEnd(t, a), LAMBDA n :
  Bind(IF n = 0 THEN 0 ELSE NumberEnd(t, n), LAMBDA e :
    IF e = 0 THEN <<>> ELSE <<w, a, n, e>>))))

\* \s+([A-Za-z\s]+) at q: <<start of the group, its end>>, or <<>>
StatGroup(t, q) ==
  IF WhiteEnd(t, q) = 0 THEN <<>>
  ELSE LET w == WhiteEnd(t, q)
           e == RunEnd(IsLetterOrWhite, t, q + 1)
       IN  IF w <= Len(t) /\ IsLetter(CharAt(t, w)) THEN <<w, e>>
           ELSE IF e > q + 1 THEN <<w - 1, e>>
           ELSE <<>>

\* the rest of pattern 1 or 5 after the first group, at g
PropTail(t, g, alt1, alt2) ==
  Bind(SideNumber(t, g, alt1, alt2), LAMBDA sn :
  Bind(IF sn = <<>> THEN <<>> ELSE StatGroup(t, sn[4]), LAMBDA st :
    IF st = <<>> THEN <<>>
    ELSE << SubSeq(t, sn[1], sn[2] - 1), SubSeq(t, sn[3], sn[4] - 1),
            SubSeq(t, st[1], st[2] - 1), st[2] >>))

\* the places from lo to hi, each after a word character, where the rest of
\* pattern 1 follows
PropTails(t, lo, hi) ==
  {g \in lo..hi : /\ IsWordChar(CharAt(t, g - 1))
                  /\ PropTail(t, g, "Over", "Under") # <<>>}

\* a match of pattern 1 or 5 from s whose first group ends before g
PropMatch(t, s, g, tail) ==
  Match(s, tail[4], <<SubSeq(t, s, g - 1), tail[1], tail[2], tail[3]>>)

\* pattern 1: the first group is the longest (\w+(?:\s+\w+)*) from s that the
\* rest of the pattern follows
MatchAt1(t, s) ==
  IF s > Len(t) \/ ~IsWordChar(CharAt(t, s)) THEN NoMatch
  ELSE Bind(PropTails(t, s + 1, RunEnd(IsWordOrWhite, t, s)), LAMBDA ends :
         IF ends = {} THEN NoMatch
         ELSE Bind(SetMax(ends), LAMBDA g :
                PropMatch(t, s, g, PropTail(t, g, "Over", "Under"))))

\* pattern 2
MatchAt2(t, s) ==
  Bind(TeamEnd(t, s), LAMBDA w :
  Bind(IF w > 0 /\ OptEnd(t, w, "1H") > 0 THEN OptEnd(t, w, "1H") ELSE w, LAMBDA p :
  Bind(IF p = 0 \/ p > Len(t) \/ ~(CharAt(t, p) = "+" \/ CharAt(t, p) = "-") THEN 0
       ELSE NumberEnd(t, p + 1), LAMBDA e :
    IF e = 0 THEN NoMatch
    ELSE Match(s, e, <<TeamOf(t, s), SubSeq(t, p, e - 1)>>))))

\* pattern 3
MatchAt3(t, s) ==
  Bind(TeamEnd(t, s), LAMBDA w :
  Bind(IF w = 0 THEN 0 ELSE OptEnd(t, w, "F5"), LAMBDA o :
  Bind(IF w = 0 THEN 0
       ELSE IF o > 0 /\ LitAt(t, o, "ML") THEN o
       ELSE IF LitAt(t, w, "ML") THEN w
       ELSE 0, LAMBDA p :
    IF p = 0 THEN NoMatch ELSE Match(s, p + 2, <<TeamOf(t, s)>>))))

\* pattern 4
MatchAt4(t, s) ==
  Bind(TeamEnd(t, s), LAMBDA w :
  Bind(IF w = 0 \/ ~LitAt(t, w, "TT") THEN <<>>
       ELSE SideNumber(t, w + 2, "Un", "Ov"), LAMBDA sn :
    IF sn = <<>> THEN NoMatch
    ELSE Match(s, sn[4], <<TeamOf(t, s), SubSeq(t, sn[1], sn[2] - 1),
                           SubSeq(t, sn[3], sn[4] - 1)>>)))

\* pattern 5: [A-Z]\.?\s+ from s, the index after it, or 0
InitialEnd(t, s) ==
  IF s + 1 <= Len(t) /\ CharAt(t, s + 1) = "." /\ WhiteEnd(t, s + 2) > 0
    THEN WhiteEnd(t, s + 2)
    ELSE WhiteEnd(t, s + 1)

\* pattern 5
MatchAt5(t, s) ==
  IF s > Len(t) \/ ~IsLetter(CharAt(t, s)) THEN NoMatch
  ELSE
    Bind(InitialEnd(t, s), LAMBDA w :
    Bind(IF w = 0 \/ w > Len(t) \/ ~IsWordChar(CharAt(t, w)) THEN 0
         ELSE RunEnd(IsWordChar, t, w), LAMBDA g :
    Bind(IF g = 0 THEN <<>> ELSE PropTail(t, g, "Ov", "Over"), LAMBDA tail :
      IF tail = <<>> THEN NoMatch ELSE PropMatch(t, s, g, tail))))

MatchAt(p, t, s) ==
  IF p = 1 THEN MatchAt1(t, s)
  ELSE IF p = 2 THEN MatchAt2(t, s)
  ELSE IF p = 3 THEN MatchAt3(t, s)
  ELSE IF p = 4 THEN MatchAt4(t, s)
  ELSE MatchAt5(t, s)

\* pattern 1, the leftmost index from pos on at which it matches, or 0: the
\* match runs into one of the places where the rest of the pattern follows,
\* through word characters and whitespace only
FirstStart1(t, pos) ==
  LET breaks(g) == {k \in pos..(g - 1) : ~IsWordOrWhite(CharAt(t, k))}
      from(g)   == IF breaks(g) = {} THEN pos ELSE SetMax(breaks(g)) + 1
      first(g)  == SetMin({s \in from(g)..(g - 1) : IsWordChar(CharAt(t, s))})
  IN  Bind({g \in PropTails(t, pos + 1, Len(t)) : IsWhite(CharAt(t, g))}, LAMBDA tails :
        IF tails = {} THEN 0 ELSE SetMin({first(g) : g \in tails}))

FirstStart(p, t, pos) ==
  IF p = 1 THEN FirstStart1(t, pos)
  ELSE Bind({s \in pos..Len(t) : MatchAt(p, t, s).ok}, LAMBDA starts :
         IF starts = {} THEN 0 ELSE SetMin(starts))

\* re.finditer(pattern, text, re.IGNORECASE): the matches from pos on
RECURSIVE FindIter(_, _, _)
FindIter(p, t, pos) ==
  Bind(FirstStart(p, t, pos), LAMBDA first :
    IF first = 0 THEN <<>>
    ELSE Bind(MatchAt(p, t, first), LAMBDA m : <<m>> \o FindIter(p, t, m.end)))

(***************************************************************************)
(* parse_bet_match: the branch is chosen by what the pattern's source text *)
(* contains.  NoBet is the None it returns.                                *)
(***************************************************************************)
NoBet == [type |-> None]

ParseBetMatch(m, pattern, t) ==
  LET groups == m.groups
      raw    == SubSeq(t, m.start, m.end - 1)
  IN  IF Contains(pattern, "Over|Under") /\ Len(groups) >= 4
        THEN [type |-> "player_prop", player |-> Strip(groups[1]),
              side |-> ToLower(groups[2]), line |-> FloatHalfPoints(groups[3]),
              stat |-> Strip(groups[4]), raw_text |-> raw]
      ELSE IF Contains(pattern, "[+-]") /\ Len(groups) >= 2
        THEN [type |-> "spread", team |-> Strip(groups[1]),
              line |-> FloatHalfPoints(groups[2]), raw_text |-> raw]
      ELSE IF Contains(pattern, "ML")
        THEN [type |-> "moneyline", team |-> Strip(groups[1]), raw_text |-> raw]
      ELSE IF Contains(pattern, "TT") /\ Len(groups) >= 3
        THEN [type |-> "team_total", team |-> Strip(groups[1]),
              side |-> IF ToLower(groups[2]) \in {"un", "under"} THEN "under" ELSE "over",
              line |-> FloatHalfPoints(groups[3]), raw_text |-> raw]
      ELSE NoBet

RECURSIVE BetsOfMatches(_, _, _)
BetsOfMatches(ms, pattern, t) ==
  IF ms = <<>> THEN <<>>
  ELSE Bind(ParseBetMatch(Head(ms), pattern, t), LAMBDA bet :
         (IF bet.type = None THEN <<>> ELSE <<bet>>)
         \o BetsOfMatches(Tail(ms), pattern, t))

RECURSIVE ExtractFrom(_, _)
ExtractFrom(p, t) ==
  IF p > Len(Patterns) THEN <<>>
  ELSE BetsOfMatches(FindIter(p, t, 1), Patterns[p], t) \o ExtractFrom(p + 1, t)

extract_bet_from_text(t) == ExtractFrom(1, t)

(***************************************************************************)
(* determine_sport                                                         *)
(***************************************************************************)
MlbAbbrevs == <<"MIL", "LAD", "ATH", "TOR", "TB", "KC", "CLE", "DET", "NYY", "BOS", "BAL", "TB">>

NflAbbrevs == <<"MIA", "BUF", "NE", "NYJ", "PIT", "BAL", "CIN", "CLE">>

AnyIn(words, text) == \E k \in 1..Len(words) : Contains(text, words[k])

\* determine_sport letting the basketball words decide beside 'football'
DetermineSportNoFootballGuard(text, bet) ==
  LET text_lower == ToLower(text)
      bet_text   == ToUpper(Get(bet, "raw_text", ""))
  IN  IF \E k \in 1..Len(MlbAbbrevs) :
           Contains(bet_text, MlbAbbrevs[k]) /\ MlbAbbrevs[k] \notin {"KC", "CLE", "DET"}
        THEN "MLB"
      ELSE IF AnyIn(NflAbbrevs, bet_text)
        THEN "NFL"
      ELSE IF Contains(text_lower, "recap") /\ AnyIn(<<"mlb", "f5", "baseball">>, text_lower)
        THEN "MLB"
      ELSE IF Contains(text_lower, "recap") /\ AnyIn(<<"nfl", "1h", "rush yds">>, text_lower)
        THEN "NFL"
      ELSE IF AnyIn(<<"nfl", "receiving yards", "rush yds", "touchdown", "quarterback">>, text_lower)
        THEN "NFL"
      ELSE IF AnyIn(<<"mlb", "baseball", "home run", "rbi", "strikeout", "f5">>, text_lower)
        THEN "MLB"
      ELSE IF AnyIn(<<"nba", "basketball", "points", "rebounds", "assists">>, text_lower)
        THEN "NBA"
      ELSE IF AnyIn(<<"soccer", "goal", "la liga", "bundesliga", "champions league">>, text_lower)
        THEN "Soccer"
      ELSE IF AnyIn(<<"college", "ncaa", "cfb">>, text_lower)
        THEN "College Football"
      ELSE IF AnyIn(<<"hockey", "nhl", "puck">>, text_lower)
        THEN "Hockey"
      ELSE "Unknown"

determine_sport(text, bet) ==
  LET text_lower == ToLower(text)
      bet_text   == ToUpper(Get(bet, "raw_text", ""))
  IN  IF \E k \in 1..Len(MlbAbbrevs) :
           Contains(bet_text, MlbAbbrevs[k]) /\ MlbAbbrevs[k] \notin {"KC", "CLE", "DET"}
        THEN "MLB"
      ELSE IF AnyIn(NflAbbrevs, bet_text)
        THEN "NFL"
      ELSE IF Contains(text_lower, "recap") /\ AnyIn(<<"mlb", "f5", "baseball">>, text_lower)
        THEN "MLB"
      ELSE IF Contains(text_lower, "recap") /\ AnyIn(<<"nfl", "1h", "rush yds">>, text_lower)
        THEN "NFL"
      ELSE IF AnyIn(<<"nfl", "receiving yards", "rush yds", "touchdown", "quarterback">>, text_lower)
        THEN "NFL"
      ELSE IF AnyIn(<<"mlb", "baseball", "home run", "rbi", "strikeout", "f5">>, text_lower)
        THEN "MLB"
      ELSE IF /\ AnyIn(<<"nba", "basketball", "points", "rebounds", "assists">>, text_lower)
              /\ ~Contains(text_lower, "football")
        THEN "NBA"
      ELSE IF AnyIn(<<"soccer", "goal", "la liga", "bundesliga", "champions league">>, text_lower)
        THEN "Soccer"
      ELSE IF AnyIn(<<"college", "ncaa", "cfb">>, text_lower)
        THEN "College Football"
      ELSE IF AnyIn(<<"hockey", "nhl", "puck">>, text_lower)
        THEN "Hockey"
      ELSE "Unknown"

(***************************************************************************)
(* parse_pick                                                              *)
(***************************************************************************)
RawPickTextLen == 200
UnknownRawTextLen == 100

RECURSIVE Replace(_, _, _)
Replace(s, old, new) ==
  IF Len(s) < Len(old) THEN s
  ELSE IF SubSeq(s, 1, Len(old)) = old
    THEN new \o Replace(SubSeq(s, Len(old) + 1, Len(s)), old, new)
    ELSE CharAt(s, 1) \o Replace(SubSeq(s, 2, Len(s)), old, new)

ParsedBet(pick_data, expert, clean_text, sport, bet) ==
  [expert |-> expert,
   date |-> Get(pick_data, "date", None),
   sport |-> sport,
   bet_type |-> bet.type,
   raw_pick_text |-> Prefix(clean_text, RawPickTextLen),
   structured_bet |-> bet,
   original_data |-> pick_data]

\* UnknownBet keeping as much text as raw_pick_text does
UnknownBetLongText(clean_text) ==
  [type |-> "unknown", raw_text |-> Prefix(clean_text, RawPickTextLen)]

UnknownBet(clean_text) ==
  [type |-> "unknown", raw_text |-> Prefix(clean_text, UnknownRawTextLen)]

\* parse_pick without the general entry of lines 123-133
parse_pick_without_fallback(pick_data) ==
  LET expert == Strip(Replace(Get(pick_data, "expert", ""), " Free Expert Pick", ""))
  IN  Bind(clean_html(Get(pick_data, "pick", "")), LAMBDA clean_text :
      Bind(extract_bet_from_text(clean_text), LAMBDA bets :
        [i \in 1..Len(bets) |->
           ParsedBet(pick_data, expert, clean_text,
                     determine_sport(clean_text, bets[i]), bets[i])]))

parse_pick(pick_data) ==
  LET expert == Strip(Replace(Get(pick_data, "expert", ""), " Free Expert Pick", ""))
  IN  Bind(clean_html(Get(pick_data, "pick", "")), LAMBDA clean_text :
      Bind(extract_bet_from_text(clean_text), LAMBDA bets :
        IF bets # <<>>
          THEN [i \in 1..Len(bets) |->
                  ParsedBet(pick_data, expert, clean_text,
                            determine_sport(clean_text, bets[i]), bets[i])]
        ELSE IF clean_text # ""
          THEN << ParsedBet(pick_data, expert, clean_text,
                            IF Get(pick_data, "sport", None) \notin {None, ""}
                              THEN pick_data.sport
                              ELSE determine_sport(clean_text, [type |-> None]),
                            UnknownBet(clean_text)) >>
        ELSE <<>>))

(***************************************************************************)
(* automated_daily_system.py.  current_time is a day number (day 0 is      *)
(* 2025-09-01); isoformat() timestamps are kept as day numbers, and        *)
(* strftime('%Y-%m-%d') is DateOf.                                         *)
(***************************************************************************)
RetentionDays == 30

Pad2(n) == IF n < 10 THEN "0" \o ToString(n) ELSE ToString(n)

DateOf(day) ==
  IF day < 30 THEN "2025-09-" \o Pad2(day + 1)
  ELSE IF day < 61 THEN "2025-10-" \o Pad2(day - 29)
  ELSE IF day < 91 THEN "2025-11-" \o Pad2(day - 60)
  ELSE "2025-12-" \o Pad2(day - 90)

DateStr(pick) ==
  Replace(Get(pick, "date", Get(pick, "scraped_date", "2025-09-18")), "-", "")

\* the scoreboard request verify_bet makes for a sport
Endpoint(sport) ==
  IF sport = "NFL" THEN "nfl"
  ELSE IF sport = "MLB" THEN "mlb"
  ELSE IF sport = "NHL" \/ sport = "HOCKEY" THEN "nhl"
  ELSE IF sport = "COLLEGE FOOTBALL" \/ sport = "CFB" THEN "college-football"
  ELSE "none"

\* the requests a batch of bets makes: <<endpoint, date_str>>
RequestOf(bet, date_str) == <<Endpoint(ToUpper(Get(bet, "sport", ""))), date_str>>

\* what the scoreboard answers to the request of a bet
Fetch(board, bet, date_str) == board[RequestOf(bet, date_str)]

SportsFilter == <<"MLB", "NFL", "College Football", "Hockey", "NBA", "PGA">>

TargetExperts ==
  <<"MoneyBadgerJake", "JoshEngleman", "Sam Smith", "Eric Lindquist",
    "Greg Ehrenberg", "Ben Rasa", "Joseph Nardone", "Jake Hari", "Eytan Shander">>

InSeq(x, seq) == \E k \in 1..Len(seq) : seq[k] = x

RECURSIVE Flatten(_)
Flatten(seqs) == IF seqs = <<>> THEN <<>> ELSE Head(seqs) \o Flatten(Tail(seqs))

EmptyDatabase(current_time) ==
  [created_at |-> current_time, picks |-> <<>>, total_picks |-> 0,
   last_updated |-> None, last_verified |-> None]

NoFile == [exists |-> FALSE, data |-> [picks |-> <<>>]]

SavedFile(data) == [exists |-> TRUE, data |-> data]

load_daily_picks_database(file, current_time) ==
  IF file.exists THEN file.data ELSE EmptyDatabase(current_time)

\* scrape_daily_picks, lines 61-68
ScrapedBets(picks, current_time) ==
  LET stamp(bet) ==
        SetKey(SetKey(SetKey(bet, "scraped_date", DateOf(current_time)),
                      "scraped_time", current_time),
               "verification_status", "pending")
      stamped(pick) ==
        Bind(parse_pick(pick), LAMBDA structured_bets :
          [j \in 1..Len(structured_bets) |-> stamp(structured_bets[j])])
  IN  Flatten([i \in 1..Len(picks) |-> stamped(picks[i])])

\* scrape_daily_picks, lines 83-91
MatchesTarget(expert_name, target) ==
  \/ Contains(ToLower(expert_name), ToLower(target))
  \/ Contains(ToLower(target), ToLower(expert_name))

IsTargetExpert(expert_name) ==
  \E k \in 1..Len(TargetExperts) : MatchesTarget(expert_name, TargetExperts[k])

NormalizedExpert(expert_name) ==
  TargetExperts[SetMin({k \in 1..Len(TargetExperts) : MatchesTarget(expert_name, TargetExperts[k])})]

\* FilteredPicks looking at the sport only
RECURSIVE FilteredPicksBySportOnly(_)
FilteredPicksBySportOnly(parsed) ==
  IF parsed = <<>> THEN <<>>
  ELSE (IF InSeq(Head(parsed).sport, SportsFilter) THEN <<Head(parsed)>> ELSE <<>>)
       \o FilteredPicksBySportOnly(Tail(parsed))

\* scrape_daily_picks, lines 77-94
RECURSIVE FilteredPicks(_)
FilteredPicks(parsed) ==
  IF parsed = <<>> THEN <<>>
  ELSE (IF /\ InSeq(Head(parsed).sport, SportsFilter)
           /\ IsTargetExpert(Get(Head(parsed), "expert", ""))
          THEN <<SetKey(Head(parsed), "expert", NormalizedExpert(Get(Head(parsed), "expert", "")))>>
          ELSE <<>>)
       \o FilteredPicks(Tail(parsed))

\* ScrapedDatabase adding nothing when the store already holds every pick
\* of the scrape
ScrapedDatabaseDeduplicating(daily_data, filtered, current_time) ==
  LET fresh == IF \A j \in 1..Len(filtered) : InSeq(filtered[j], daily_data.picks)
                 THEN <<>> ELSE filtered
  IN  [daily_data EXCEPT !.picks = daily_data.picks \o fresh,
                         !.last_updated = current_time,
                         !.total_picks = Len(daily_data.picks \o fresh)]

\* scrape_daily_picks, lines 98-104
ScrapedDatabase(daily_data, filtered, current_time) ==
  [daily_data EXCEPT !.picks = daily_data.picks \o filtered,
                     !.last_updated = current_time,
                     !.total_picks = Len(daily_data.picks \o filtered)]

\* verify_pending_picks, lines 124-165
IsPending(pick) == Get(pick, "verification_status", None) = "pending"

\* VerifiedDatabase leaving pending the picks it could not settle
VerifiedDatabaseRetryingUnsettled(daily_data, board, current_time) ==
  [daily_data EXCEPT
     !.picks = [i \in 1..Len(daily_data.picks) |->
                  IF IsPending(daily_data.picks[i])
                    THEN Bind(VerifyPick(daily_data.picks[i],
                                         Fetch(board, daily_data.picks[i], DateStr(daily_data.picks[i])),
                                         current_time), LAMBDA verified :
                           IF Get(Get(verified, "verification", [result |-> None]), "result", None)
                                \in {"win", "loss"}
                             THEN verified
                             ELSE SetKey(verified, "verification_status", "pending"))
                    ELSE daily_data.picks[i]],
     !.last_verified = current_time]

VerifiedDatabase(daily_data, board, current_time) ==
  [daily_data EXCEPT
     !.picks = [i \in 1..Len(daily_data.picks) |->
                  IF IsPending(daily_data.picks[i])
                    THEN VerifyPick(daily_data.picks[i],
                                    Fetch(board, daily_data.picks[i], DateStr(daily_data.picks[i])),
                                    current_time)
                    ELSE daily_data.picks[i]],
     !.last_verified = current_time]

\* update_dashboard_data
HasResult(pick) ==
  /\ Get(pick, "verification_status", None) = "completed"
  /\ Get(Get(pick, "verification", NoOutcome), "result", None) \in {"win", "loss"}

RECURSIVE SelectSeq2(_, _)
SelectSeq2(seq, idx) ==
  IF seq = <<>> THEN <<>>
  ELSE (IF 1 \in idx THEN <<Head(seq)>> ELSE <<>>)
       \o SelectSeq2(Tail(seq), {i - 1 : i \in idx \ {1}})

DashboardData(daily_data, current_time) ==
  LET completed == {i \in 1..Len(daily_data.picks) : HasResult(daily_data.picks[i])}
      pending   == {i \in 1..Len(daily_data.picks) : IsPending(daily_data.picks[i])}
  IN  [generated_at |-> current_time,
       total_picks_collected |-> daily_data.total_picks,
       verified_picks |-> Cardinality(completed),
       pending_verification |-> Cardinality(pending),
       last_updated |-> Get(daily_data, "last_updated", None),
       last_verified |-> Get(daily_data, "last_verified", None),
       verified_bets |-> SelectSeq2(daily_data.picks, completed)]

update_dashboard_data(file, current_time) ==
  SavedFile(DashboardData(load_daily_picks_database(file, current_time), current_time))

\* CleanedDatabase keeping the picks scraped at the cutoff itself
CleanedDatabaseKeepingCutoff(daily_data, current_time) ==
  LET cutoff_date == current_time - RetentionDays
      kept == {i \in 1..Len(daily_data.picks) : daily_data.picks[i].scraped_time >= cutoff_date}
  IN  [daily_data EXCEPT !.picks = SelectSeq2(daily_data.picks, kept),
                         !.total_picks = Cardinality(kept)]

\* CleanedDatabase keeping the total it loaded
CleanedDatabaseStaleTotal(daily_data, current_time) ==
  LET cutoff_date == current_time - RetentionDays
      kept == {i \in 1..Len(daily_data.picks) : daily_data.picks[i].scraped_time > cutoff_date}
  IN  [daily_data EXCEPT !.picks = SelectSeq2(daily_data.picks, kept)]

\* cleanup_old_picks, lines 230-241
CleanedDatabase(daily_data, current_time) ==
  LET cutoff_date == current_time - RetentionDays
      kept == {i \in 1..Len(daily_data.picks) : daily_data.picks[i].scraped_time > cutoff_date}
  IN  [daily_data EXCEPT !.picks = SelectSeq2(daily_data.picks, kept),
                         !.total_picks = Cardinality(kept)]

(***************************************************************************)
(* State.                                                                  *)
(*   dailyFile, dashboardFile  daily_picks.json and dashboard_data.json    *)
(*   now                       the day the next job runs on                *)
(*   lastJob                   the job that ran last                       *)
(*   vmode, vin, vgames, vout, vpc                                         *)
(*                             one pick, the games fetched for it, and the *)
(*                             pick after verification                     *)
(*   bbets, bboard, bout, bpc  one batch of bets, the scoreboard answers,  *)
(*                             and what the batch loop leaves              *)
(*   praw, pout, ppc           one scraped pick and parse_pick's result    *)
(*   sbets, sout, spc          one list of verified bets and the           *)
(*                             statistics an aggregator computes from it   *)
(*   rpc, rmem, rlog           the scrape job and the verify job run at    *)
(*                             the same time: where each is, the store     *)
(*                             each holds in memory, the reads and writes  *)
(*                             of the store file in their order            *)
(***************************************************************************)
VARIABLES dailyFile, dashboardFile, now, lastJob, logged,
          vmode, vin, vresp, vgames, vout, vpc,
          bbets, bboard, bout, bpc,
          praw, pout, ppc,
          sbets, sout, spc,
          rpc, rmem, rlog

vars == <<dailyFile, dashboardFile, now, lastJob, logged,
          vmode, vin, vresp, vgames, vout, vpc,
          bbets, bboard, bout, bpc,
          praw, pout, ppc,
          sbets, sout, spc,
          rpc, rmem, rlog>>

jobVars == <<dailyFile, dashboardFile, now, lastJob, logged>>

verifyVars == <<vmode, vin, vresp, vgames, vout, vpc>>

batchVars == <<bbets, bboard, bout, bpc>>

parseVars == <<praw, pout, ppc>>

statsVars == <<sbets, sout, spc>>

raceVars == <<rpc, rmem, rlog>>

JobsIdle ==
  /\ dailyFile = NoFile
  /\ dashboardFile = NoFile
  /\ now = 0
  /\ lastJob = "none"
  /\ logged = 0

VerifyIdle ==
  /\ vmode = "idle"
  /\ vin = [expert |-> ""]
  /\ vresp = NoResponse
  /\ vgames = <<>>
  /\ vout = [expert |-> ""]
  /\ vpc = "idle"

BatchIdle ==
  /\ bbets = <<>>
  /\ bboard = <<>>
  /\ bout = [loop |-> "none", raised |-> FALSE, msg |-> "", bets |-> <<>>]
  /\ bpc = "idle"

ParseIdle ==
  /\ praw = [expert |-> "", pick |-> ""]
  /\ pout = <<>>
  /\ ppc = "idle"

StatsIdle ==
  /\ sbets = <<>>
  /\ sout = [by |-> "none"]
  /\ spc = "idle"

RaceIdle ==
  /\ rpc = [job \in {"scrape", "verify"} |-> "idle"]
  /\ rmem = [job \in {"scrape", "verify"} |-> EmptyDatabase(0)]
  /\ rlog = <<>>

(***************************************************************************)
(* The scoreboard: games as the ESPN events verify_spread_bet reads.       *)
(***************************************************************************)
Competitor(name, home_away, score) ==
  [displayName |-> name, homeAway |-> home_away, score |-> score]

Game(home, away, home_score, away_score, completed) ==
  [competitors |-> <<Competitor(home, "home", home_score), Competitor(away, "away", away_score)>>,
   completed |-> completed]

Matchups ==
  { <<"Kansas City Royals", "Detroit Tigers">>,
    <<"Milwaukee Brewers", "Los Angeles Dodgers">>,
    <<"New York Rangers", "New York Islanders">>,
    <<"Cincinnati Bengals", "Kansas City Chiefs">> }

ScoreStrings == {ToString(n) : n \in 0..MaxScore}

RegularGames ==
  {Game(m[1], m[2], hs, as, c) : m \in Matchups, hs \in ScoreStrings, as \in ScoreStrings,
                                 c \in BOOLEAN}

IrregularGames ==
  { \* no completed flag, no scores
    [competitors |-> <<[displayName |-> "Kansas City Royals", homeAway |-> "home"],
                       [displayName |-> "Detroit Tigers", homeAway |-> "away"]>>],
    \* a score that is not a number
    Game("Kansas City Royals", "Detroit Tigers", BadScore, "1", TRUE),
    \* no home competitor
    [competitors |-> <<Competitor("Detroit Tigers", "away", "1"),
                       Competitor("Kansas City Royals", "away", "2")>>,
     completed |-> TRUE],
    \* no competitors
    [competitors |-> <<>>, completed |-> TRUE] }

VGames == RegularGames \cup IrregularGames

FirstGames ==
  { Game("Milwaukee Brewers", "Los Angeles Dodgers", "1", "0", TRUE),
    Game("Kansas City Royals", "Detroit Tigers", "0", "1", FALSE) }

VGameLists ==
  {<<>>} \cup {<<g>> : g \in VGames} \cup {<<f, g>> : f \in FirstGames, g \in VGames}

(***************************************************************************)
(* What the scoreboard answers to a request: the request raises (timeout,  *)
(* connection error, a body that is no JSON), or there is a response with  *)
(* a status code and the events of its body.                               *)
(***************************************************************************)
VResponses ==
  {[kind |-> "exception", status_code |-> 0, events |-> <<>>],
   [kind |-> "response", status_code |-> 503, events |-> <<>>],
   [kind |-> "response", status_code |-> 404,
    events |-> <<Game("Milwaukee Brewers", "Los Angeles Dodgers", "1", "0", TRUE)>>]}
  \cup {[kind |-> "response", status_code |-> 200, events |-> games] : games \in VGameLists}

(***************************************************************************)
(* The picks verify_bet is applied to.                                     *)
(***************************************************************************)
VSports == {"MLB", "NFL", "Hockey", "College Football", "NBA"}

VLines == {-3, -2, 3}

VStructured ==
  {[type |-> "spread", team |-> t, line |-> l, raw_text |-> t] :
      t \in {"KC", "LAD", "NYR"}, l \in VLines}
  \cup {[type |-> "spread", team |-> "NYI", line |-> 3, raw_text |-> "NYI"]}
  \cup {[type |-> "moneyline", team |-> t, raw_text |-> t \o " ML"] :
      t \in {"KC", "LAD", "DET", "NYR"}}
  \cup {[type |-> "team_total", team |-> "KC", side |-> s, line |-> l, raw_text |-> "KC TT"] :
      s \in {"under", "over"}, l \in {2, 3}}
  \cup {[type |-> "player_prop", player |-> p[1], side |-> "over", line |-> 139,
         stat |-> p[2], raw_text |-> p[1]] :
      p \in {<<"Chase", "Receiving Yards">>, <<"D. Achane", "rush yds">>}}
  \cup {[type |-> "unknown", raw_text |-> "good luck"]}

PendingPick(expert, sport, text, sb) ==
  [expert |-> expert, date |-> "2025-09-18", sport |-> sport, bet_type |-> sb.type,
   raw_pick_text |-> text, structured_bet |-> sb, verification_status |-> "pending"]

VPicks ==
  {PendingPick("Sam Smith", s, "todays pick", sb) : s \in VSports, sb \in VStructured}
  \cup {PendingPick("Sam Smith", "Hockey", "HC Davos European league", sb) :
          sb \in {x \in VStructured : x.type \in {"moneyline", "player_prop"}}}
  \cup { \* records read from a hand-written file: no expert, no line
         [date |-> "2025-09-18", sport |-> "MLB", bet_type |-> "moneyline",
          raw_pick_text |-> "KC ML", structured_bet |-> [type |-> "moneyline", team |-> "KC"],
          verification_status |-> "pending"],
         PendingPick("Sam Smith", "MLB", "KC", [type |-> "spread", team |-> "KC", raw_text |-> "KC"]) }

(***************************************************************************)
(* The picks and games of real_pick_checker.py.                            *)
(***************************************************************************)
CPicks ==
  {[expert |-> "Big Smokey Picks", pick |-> "pick", sport |-> s, bet_type |-> bt,
    team |-> t, line |-> l, date |-> "2025-09-18"] :
      s \in {"MLB", "Soccer", "College Football", "NBA"}, bt \in {"moneyline", "spread", "total"},
      t \in {"Kansas City Royals", "Detroit Tigers", "Oakland Athletics", ""},
      l \in {"-1.5", "+1.5", "-1"}}

CGames ==
  {[home_team |-> m[1], away_team |-> m[2], home_score |-> hs, away_score |-> as,
    completed |-> c] :
      m \in {<<"Kansas City Royals", "Detroit Tigers">>, <<"Seattle Mariners", "Oakland Athletics">>},
      hs \in 0..MaxScore, as \in 0..MaxScore, c \in BOOLEAN}

CGameLists == {<<>>} \cup {<<g>> : g \in CGames}

\* check_real_pick_results, the body of the loop
CheckRealPick(pick, mlb_games) ==
  SetKey(pick, "result",
         IF pick.sport = "MLB" THEN VerifyMlbPick(pick, mlb_games)
         ELSE IF pick.sport = "Soccer" THEN Outcome("pending", None)
         ELSE IF pick.sport = "College Football" THEN Outcome("pending", None)
         ELSE Outcome("unsupported", None))

VerifyInit ==
  /\ JobsIdle /\ BatchIdle /\ ParseIdle /\ StatsIdle /\ RaceIdle
  /\ vpc = "input"
  /\ \/ vmode = "engine" /\ vin \in VPicks /\ vresp \in VResponses /\ vgames = <<>>
     \/ vmode = "checker" /\ vin \in CPicks /\ vresp = NoResponse /\ vgames \in CGameLists
  /\ vout = vin

EngineVerify ==
  /\ vpc = "input" /\ vmode = "engine"
  /\ vgames' = GetGames(vresp)
  /\ vout' = VerifyPick(vin, vgames', VerifyTime)
  /\ vpc' = "done"
  /\ UNCHANGED <<vmode, vin, vresp, jobVars, batchVars, parseVars, statsVars, raceVars>>

CheckerVerify ==
  /\ vpc = "input" /\ vmode = "checker"
  /\ vout' = CheckRealPick(vin, vgames)
  /\ vpc' = "done"
  /\ UNCHANGED <<vmode, vin, vresp, vgames, jobVars, batchVars, parseVars, statsVars, raceVars>>

VerifyNext == EngineVerify \/ CheckerVerify

SpecVerify == VerifyInit /\ [][VerifyNext]_vars

(***************************************************************************)
(* The batch loops: verify_all_bets and verify_multi_day_picks.main.       *)
(* A loop leaves [loop, raised, msg, bets]: the verified bets it           *)
(* accumulated, and whether an exception ended it.                         *)
(***************************************************************************)
\* verify_all_bets, line 432
FirstDateStr(bets) ==
  IF bets # <<>> THEN Replace(Get(bets[1], "date", ""), "-", "") ELSE "20250918"

\* verify_multi_day_picks.main, lines 38-39
MultiDayDateStr(bet) ==
  Replace(IF Get(bet, "scraped_date", "") # ""
            THEN bet.scraped_date
            ELSE Get(bet, "date", "2025-09-18"),
          "-", "")

\* verify_all_bets, lines 442-443, and main, lines 45-46
WithVerification(bet, verification, current_time) ==
  SetKey(SetKey(bet, "verification", verification), "verified_at", current_time)

\* VerifyAllBets asking for the games of each bet's own date
VerifyAllBetsOwnDates(bets, board, current_time) ==
  LET ret(i)  == VerifyBet(bets[i], Fetch(board, bets[i], DateStr(bets[i])))
      raising == {i \in 1..Len(bets) : ret(i).exc}
      last    == IF raising = {} THEN Len(bets) ELSE SetMin(raising) - 1
  IN  [loop |-> "verify_all_bets",
       raised |-> raising # {},
       msg |-> IF raising = {} THEN "" ELSE ret(SetMin(raising)).msg,
       bets |-> [i \in 1..last |-> WithVerification(bets[i], ret(i).value, current_time)]]

VerifyAllBets(bets, board, current_time) ==
  LET ret(i)  == VerifyBet(bets[i], Fetch(board, bets[i], FirstDateStr(bets)))
      raising == {i \in 1..Len(bets) : ret(i).exc}
      last    == IF raising = {} THEN Len(bets) ELSE SetMin(raising) - 1
  IN  [loop |-> "verify_all_bets",
       raised |-> raising # {},
       msg |-> IF raising = {} THEN "" ELSE ret(SetMin(raising)).msg,
       bets |-> [i \in 1..last |-> WithVerification(bets[i], ret(i).value, current_time)]]

VerifyMultiDay(picks, board, current_time) ==
  LET ret(i)  == IF "expert" \notin DOMAIN picks[i] THEN Raise("'expert'")
                 ELSE IF "sport" \notin DOMAIN picks[i] THEN Raise("'sport'")
                 ELSE VerifyBet(picks[i], Fetch(board, picks[i], MultiDayDateStr(picks[i])))
      raising == {i \in 1..Len(picks) : ret(i).exc}
      last    == IF raising = {} THEN Len(picks) ELSE SetMin(raising) - 1
  IN  [loop |-> "verify_multi_day_picks",
       raised |-> raising # {},
       msg |-> IF raising = {} THEN "" ELSE ret(SetMin(raising)).msg,
       bets |-> [i \in 1..last |-> WithVerification(picks[i], ret(i).value, current_time)]]

\* verify_pending_picks on a store that holds the batch
VerifyPending(picks, board, current_time) ==
  [loop |-> "verify_pending_picks",
   raised |-> FALSE,
   msg |-> "",
   bets |-> VerifiedDatabase([EmptyDatabase(current_time) EXCEPT !.picks = picks,
                                                                  !.total_picks = Len(picks)],
                             board, current_time).picks]

BatchBet(sport, date, sb) ==
  [expert |-> "Sam Smith", date |-> date, sport |-> sport, bet_type |-> sb.type,
   raw_pick_text |-> "todays pick", structured_bet |-> sb,
   scraped_date |-> "2025-09-18", verification_status |-> "pending"]

BatchBets ==
  { BatchBet("MLB", "2025-09-18", [type |-> "spread", team |-> "LAD", line |-> -3, raw_text |-> "LAD -1.5"]),
    BatchBet("MLB", "2025-09-19", [type |-> "moneyline", team |-> "MIL", raw_text |-> "MIL ML"]),
    BatchBet("NBA", "2025-09-18", [type |-> "unknown", raw_text |-> "good luck"]),
    \* a spread without a line
    BatchBet("MLB", "2025-09-18", [type |-> "spread", team |-> "LAD", raw_text |-> "LAD"]),
    \* a stored pick without a date of its own
    [expert |-> "Sam Smith", sport |-> "MLB", bet_type |-> "spread",
     raw_pick_text |-> "todays pick",
     structured_bet |-> [type |-> "spread", team |-> "LAD", line |-> 3, raw_text |-> "LAD +1.5"],
     scraped_date |-> "2025-09-19", verification_status |-> "pending"],
    \* a record without an expert
    [date |-> "2025-09-18", sport |-> "MLB", bet_type |-> "moneyline",
     raw_pick_text |-> "MIL ML", structured_bet |-> [type |-> "moneyline", team |-> "MIL"],
     scraped_date |-> "2025-09-18", verification_status |-> "pending"] }

BatchGameLists ==
  { <<>>,
    <<Game("Milwaukee Brewers", "Los Angeles Dodgers", "1", "0", TRUE)>>,
    <<Game("Milwaukee Brewers", "Los Angeles Dodgers", BadScore, "0", TRUE)>> }

RECURSIVE SeqsOfLen(_, _)
SeqsOfLen(S, n) ==
  IF n = 0 THEN {<<>>} ELSE {Append(s, x) : s \in SeqsOfLen(S, n - 1), x \in S}

SeqsUpTo(S, n) == UNION {SeqsOfLen(S, k) : k \in 0..n}

BatchRequests(bets) ==
  {RequestOf(bets[i], FirstDateStr(bets)) : i \in 1..Len(bets)}
  \cup {RequestOf(bets[i], DateStr(bets[i])) : i \in 1..Len(bets)}
  \cup {RequestOf(bets[i], MultiDayDateStr(bets[i])) : i \in 1..Len(bets)}

BatchInit ==
  /\ JobsIdle /\ VerifyIdle /\ ParseIdle /\ StatsIdle /\ RaceIdle
  /\ bpc = "input"
  /\ bbets \in SeqsUpTo(BatchBets, MaxBatch) \ {<<>>}
  /\ bboard \in [BatchRequests(bbets) -> BatchGameLists]
  /\ bout = [loop |-> "none", raised |-> FALSE, msg |-> "", bets |-> <<>>]

RunVerifyAllBets ==
  /\ bpc = "input"
  /\ bout' = VerifyAllBets(bbets, bboard, VerifyTime)
  /\ bpc' = "done"
  /\ UNCHANGED <<bbets, bboard, jobVars, verifyVars, parseVars, statsVars, raceVars>>

RunVerifyMultiDay ==
  /\ bpc = "input"
  /\ bout' = VerifyMultiDay(bbets, bboard, VerifyTime)
  /\ bpc' = "done"
  /\ UNCHANGED <<bbets, bboard, jobVars, verifyVars, parseVars, statsVars, raceVars>>

RunVerifyPending ==
  /\ bpc = "input"
  /\ bout' = VerifyPending(bbets, bboard, VerifyTime)
  /\ bpc' = "done"
  /\ UNCHANGED <<bbets, bboard, jobVars, verifyVars, parseVars, statsVars, raceVars>>

BatchNext == RunVerifyAllBets \/ RunVerifyMultiDay \/ RunVerifyPending

SpecBatch == BatchInit /\ [][BatchNext]_vars

(***************************************************************************)
(* parse_pick applied to one scraped pick.                                 *)
(***************************************************************************)
RECURSIVE Repeat(_, _)
Repeat(c, n) ==
  IF n = 0 THEN "" ELSE IF n = 1 THEN c ELSE Repeat(c, n \div 2) \o Repeat(c, n - n \div 2)

Filler == Repeat("x", FillerLen)

ParseTokens ==
  {"KC ML ", "LAD -1.5 ", "BUF TT Un 31.5 ", "Chase Over 69.5 receiving yards ",
   "D. Achane Ov 52.5 rush yds ", "KC ", "good luck ", "<br>", " ", Filler \o " ",
   "recap nfl f5 ", "ncaa football points "}

RECURSIVE TextsOfLen(_)
TextsOfLen(n) ==
  IF n = 0 THEN {""} ELSE {t \o tok : t \in TextsOfLen(n - 1), tok \in ParseTokens}

ParseTexts == UNION {TextsOfLen(n) : n \in 0..MaxTokens}

ParseInit ==
  /\ JobsIdle /\ VerifyIdle /\ BatchIdle /\ StatsIdle /\ RaceIdle
  /\ ppc = "input"
  /\ praw \in {[expert |-> "Sam Smith Free Expert Pick", pick |-> t, sport |-> s,
                date |-> "2025-09-18"] : t \in ParseTexts, s \in {None, "NBA"}}
  /\ pout = <<>>

ParsePick ==
  /\ ppc = "input"
  /\ pout' = parse_pick(praw)
  /\ ppc' = "done"
  /\ UNCHANGED <<praw, jobVars, verifyVars, batchVars, statsVars, raceVars>>

ParseNext == ParsePick

SpecParse == ParseInit /\ [][ParseNext]_vars

(***************************************************************************)
(* The scheduled jobs of AutomatedBettingSystem, run one at a time.        *)
(***************************************************************************)
\* the days that pass between two jobs: a day short of the retention window,
\* the window exactly, a day more
TickDays == {RetentionDays - 1, RetentionDays, RetentionDays + 1}

\* what OddshopperScraper.get_picks_for_date returns: picks with an expert, a
\* text, a sport or None, and the date set to the target date
ScrapedPick(expert, text, sport, current_time) ==
  [expert |-> expert, pick |-> text, sport |-> sport, date |-> DateOf(current_time)]

\* the answers of the scraper: nothing, a tracked expert's pick, a pick of an
\* expert that is not tracked, or both
ScraperResults(current_time) ==
  LET tracked   == ScrapedPick("Sam Smith Free Expert Pick", "<b>LAD -1.5</b>", None, current_time)
      untracked == ScrapedPick("Chef T", "good luck", "NBA", current_time)
  IN  { <<>>, <<tracked>>, <<untracked>>, <<untracked, tracked>> }

JobGameLists ==
  { <<>>,
    <<Game("Milwaukee Brewers", "Los Angeles Dodgers", "1", "0", TRUE)>>,
    <<Game("Milwaukee Brewers", "Los Angeles Dodgers", "0", "2", FALSE)>> }

PendingRequests(daily_data) ==
  {RequestOf(daily_data.picks[i], DateStr(daily_data.picks[i])) :
     i \in {k \in 1..Len(daily_data.picks) : IsPending(daily_data.picks[k])}}

Init ==
  /\ JobsIdle /\ VerifyIdle /\ BatchIdle /\ ParseIdle /\ StatsIdle /\ RaceIdle

\* scrape_daily_picks
ScrapeDailyPicks ==
  \E picks \in ScraperResults(now) :
  \E filtered \in {FilteredPicks(ScrapedBets(picks, now))} :
    LET daily_data == load_daily_picks_database(dailyFile, now)
    IN  /\ Len(daily_data.picks) + Len(filtered) <= MaxPicks
        /\ IF picks = <<>>
             THEN /\ lastJob' = "scrape_nothing"
                  /\ logged' = 0
                  /\ UNCHANGED <<dailyFile, dashboardFile>>
             ELSE /\ dailyFile' = SavedFile(ScrapedDatabase(daily_data, filtered, now))
                  /\ dashboardFile' = update_dashboard_data(dailyFile', now)
                  /\ lastJob' = "scrape"
                  /\ logged' = Len(filtered)
        /\ UNCHANGED <<now, verifyVars, batchVars, parseVars, statsVars, raceVars>>

\* verify_pending_picks
VerifyPendingPicks ==
  LET daily_data == load_daily_picks_database(dailyFile, now)
  IN  /\ IF \A i \in 1..Len(daily_data.picks) : ~IsPending(daily_data.picks[i])
           THEN /\ lastJob' = "verify_nothing"
                /\ logged' = 0
                /\ UNCHANGED <<dailyFile, dashboardFile>>
           ELSE \E board \in [PendingRequests(daily_data) -> JobGameLists] :
                \E verified \in {VerifiedDatabase(daily_data, board, now)} :
                  /\ dailyFile' = SavedFile(verified)
                  /\ dashboardFile' = update_dashboard_data(dailyFile', now)
                  /\ lastJob' = "verify"
                  /\ logged' = Cardinality({i \in 1..Len(verified.picks) :
                                              /\ IsPending(daily_data.picks[i])
                                              /\ HasResult(verified.picks[i])})
      /\ UNCHANGED <<now, verifyVars, batchVars, parseVars, statsVars, raceVars>>

\* cleanup_old_picks
CleanupOldPicks ==
  LET daily_data == load_daily_picks_database(dailyFile, now)
      cleaned    == CleanedDatabase(daily_data, now)
  IN  /\ IF Len(daily_data.picks) - Len(cleaned.picks) > 0
           THEN /\ dailyFile' = SavedFile(cleaned)
                /\ lastJob' = "cleanup"
                /\ logged' = Len(daily_data.picks) - Len(cleaned.picks)
           ELSE /\ lastJob' = "cleanup_nothing"
                /\ logged' = 0
                /\ UNCHANGED dailyFile
      /\ UNCHANGED <<dashboardFile, now, verifyVars, batchVars, parseVars, statsVars, raceVars>>

\* the days between two jobs
Tick ==
  /\ \E days \in TickDays :
       /\ now + days <= MaxTicks * (RetentionDays + 1)
       /\ now' = now + days
  /\ UNCHANGED <<dailyFile, dashboardFile, lastJob, logged, verifyVars, batchVars, parseVars, statsVars, raceVars>>

Next == ScrapeDailyPicks \/ VerifyPendingPicks \/ CleanupOldPicks \/ Tick

Spec == Init /\ [][Next]_vars

(***************************************************************************)
(* Properties.                                                             *)
(***************************************************************************)
StoredPicks == IF dailyFile.exists THEN dailyFile.data.picks ELSE <<>>

\* a pick that went through a verification attempt and has no win or loss
NonFinal(pick) ==
  /\ Get(pick, "verification_status", None) \in {"completed", "error"}
  /\ Get(Get(pick, "verification", NoOutcome), "result", None) \notin {"win", "loss"}

\* the status a pick carries after an attempt: the outcome's status, or error
\* when the orchestrator caught an exception
VerificationStatusOf(pick) ==
  IF Get(pick, "verification_status", None) = "error"
    THEN "error"
    ELSE Get(Get(pick, "verification", NoOutcome), "status", None)

VerificationOf(pick) == Get(pick, "verification", NoOutcome)

EngineDone == vpc = "done" /\ vmode = "engine"

CheckerDone == vpc = "done" /\ vmode = "checker"

IsIntlHockey(pick) ==
  /\ ToUpper(Get(pick, "sport", "")) \in {"NHL", "HOCKEY"}
  /\ AnyKeywordIn(IntlHockeyIndicators, ToLower(Get(pick, "raw_pick_text", "")))

\* the fetched games in which a team name contains an alias fragment of the
\* bet's team code, the fragments taken from the table of the bet's own sport
MatchedGames(pick, games) ==
  {i \in 1..Len(games) : GameHit(games[i], TeamKeywords(pick))}

MatchedGame(pick, games) == games[SetMin(MatchedGames(pick, games))]

\* the bet's team matches a completed game with final scores
MatchesCompletedGame(pick, games) ==
  /\ "expert" \in DOMAIN pick
  /\ SupportedSport(ToUpper(Get(pick, "sport", "")))
  /\ ~IsIntlHockey(pick)
  /\ MatchedGames(pick, games) # {}
  /\ Get(MatchedGame(pick, games), "completed", FALSE)
  /\ IsIntLiteral(Get(HomeTeam(MatchedGame(pick, games)), "score", "0"))
  /\ IsIntLiteral(Get(AwayTeam(MatchedGame(pick, games)), "score", "0"))

PickedHome(pick, game) ==
  AnyKeywordIn(TeamKeywords(pick), CompName(HomeTeam(game)))

PickedTeamScore(pick, game) ==
  IF PickedHome(pick, game)
    THEN IntOf(HomeTeam(game).score) ELSE IntOf(AwayTeam(game).score)

OpponentScore(pick, game) ==
  IF PickedHome(pick, game)
    THEN IntOf(AwayTeam(game).score) ELSE IntOf(HomeTeam(game).score)

WinIf(cond) == Outcome("verified", IF cond THEN "win" ELSE "loss")

\* real_pick_checker: the pick names a team of the completed game it is given
CheckerMatchesCompletedGame(pick, games) ==
  /\ pick.sport = "MLB"
  /\ games # <<>>
  /\ games[1].completed
  /\ pick.team \in {games[1].home_team, games[1].away_team}

CheckerPickedScore(pick, game) ==
  IF pick.team = game.home_team THEN game.home_score ELSE game.away_score

CheckerOpponentScore(pick, game) ==
  IF pick.team = game.home_team THEN game.away_score ELSE game.home_score

\* the line strings of the checker's picks, in half points
CheckerLine(pick) ==
  IF pick.line = "-1.5" THEN 0 - 3 ELSE IF pick.line = "+1.5" THEN 3 ELSE 0 - 2

\* C1: a pick whose attempt ended without a win or loss is verified again by
\* a later run of verify_pending_picks: the run recomputes its outcome and
\* stamps it with the time of the run.
C1_NonFinalOutcomeRecomputed ==
  [][VerifyPendingPicks =>
       \A i \in 1..Len(StoredPicks) :
          NonFinal(StoredPicks[i]) =>
            Get(dailyFile'.data.picks[i], "verified_at", 0 - 1) = now]_vars

\* C2: in every batch loop an exception raised while verifying one bet does
\* not end the loop: the loop finishes without an exception and leaves an
\* entry for every bet of the batch.
C2_ExceptionDoesNotAbortBatch ==
  bpc = "done" => (~bout.raised /\ Len(bout.bets) = Len(bbets))

\* C3: the saved total_picks equals the length of the saved picks list.
C3_TotalPicksIsLength ==
  dailyFile.exists => dailyFile.data.total_picks = Len(dailyFile.data.picks)

\* C3, its case: a cleanup removed picks and left others in the store
C3_CleanupLeftPicks ==
  /\ dailyFile.exists
  /\ lastJob = "cleanup"
  /\ Len(dailyFile.data.picks) > 0

\* C4 as stated: after an attempt the status is one of verified, push,
\* game_not_completed, team_not_found, unsupported_sport,
\* unsupported_bet_type, error.
C4_StatusInStatedSet ==
  EngineDone =>
    VerificationStatusOf(vout) \in
      {"verified", "push", "game_not_completed", "team_not_found",
       "unsupported_sport", "unsupported_bet_type", "error"}

\* C4 amended: after an attempt the status is one of verified,
\* game_not_completed, team_not_found, unsupported_sport,
\* unsupported_bet_type, no_games_found, international_hockey,
\* needs_manual_verification, api_limitation, or error (set by the
\* orchestrator); push is never produced.
C4_StatusInProducedSet ==
  EngineDone =>
    VerificationStatusOf(vout) \in
      {"verified", "game_not_completed", "team_not_found",
       "unsupported_sport", "unsupported_bet_type", "error",
       "no_games_found", "international_hockey",
       "needs_manual_verification", "api_limitation"}

\* C4, its case: an attempt that ended with a status outside the stated set
C4_InternationalHockeyReached ==
  EngineDone /\ VerificationStatusOf(vout) = "international_hockey"

\* C5 as stated: a pick with non-empty raw text yields at least one bet.
C5_RawTextYieldsBet ==
  (ppc = "done" /\ praw.pick # "") => Len(pout) >= 1

\* C5 amended: parse_pick returns at least one bet exactly when the cleaned
\* text (tags removed, whitespace collapsed and trimmed) is non-empty; raw
\* text of markup or whitespace only cleans to the empty text and yields
\* no bet.
C5_CleanTextYieldsBet ==
  ppc = "done" => (Len(pout) >= 1 <=> clean_html(praw.pick) # "")

\* C5, its case: text with markup that matches no family gets the fallback
C5_FallbackOnMarkedUpText ==
  /\ ppc = "done"
  /\ Contains(praw.pick, "<br>")
  /\ Len(pout) = 1
  /\ pout[1].bet_type = "unknown"

NoFamilyYieldsBet ==
  /\ clean_html(praw.pick) # ""
  /\ extract_bet_from_text(clean_html(praw.pick)) = <<>>

\* C6 as stated: when no family yields a bet from non-empty text, the one
\* unknown bet's structured raw text is the first 200 characters of the
\* cleaned text.
C6_RawTextIsFirst200 ==
  (ppc = "done" /\ NoFamilyYieldsBet) =>
    /\ Len(pout) = 1
    /\ pout[1].bet_type = "unknown"
    /\ pout[1].structured_bet.raw_text = Prefix(clean_html(praw.pick), RawPickTextLen)

\* C6 amended: when no family yields a bet from non-empty cleaned text,
\* parse_pick emits exactly one bet of kind unknown whose structured raw text
\* is the first 100 characters of the cleaned text and whose raw_pick_text is
\* its first 200 characters.
C6_RawTextIsFirst100 ==
  (ppc = "done" /\ NoFamilyYieldsBet) =>
    /\ Len(pout) = 1
    /\ pout[1].bet_type = "unknown"
    /\ pout[1].structured_bet.type = "unknown"
    /\ pout[1].structured_bet.raw_text = Prefix(clean_html(praw.pick), UnknownRawTextLen)
    /\ pout[1].raw_pick_text = Prefix(clean_html(praw.pick), RawPickTextLen)

\* C6, its case: a fallback on a text longer than 200 characters
C6_FallbackOnLongText ==
  /\ ppc = "done"
  /\ NoFamilyYieldsBet
  /\ Len(clean_html(praw.pick)) > RawPickTextLen
  /\ Len(pout) = 1

\* C7: a moneyline bet whose team matches a completed game is a win iff the
\* picked team's final score is strictly greater than the opponent's, and a
\* loss otherwise (verify_bet, and evaluate_mlb_moneyline of the checker).
C7_MoneylineByFinalScore ==
  /\ (EngineDone /\ vin.bet_type = "moneyline" /\ MatchesCompletedGame(vin, vgames)) =>
       VerificationOf(vout) =
         WinIf(PickedTeamScore(vin, MatchedGame(vin, vgames))
                 > OpponentScore(vin, MatchedGame(vin, vgames)))
  /\ (CheckerDone /\ vin.bet_type = "moneyline" /\ CheckerMatchesCompletedGame(vin, vgames)) =>
       vout.result =
         WinIf(CheckerPickedScore(vin, vgames[1]) > CheckerOpponentScore(vin, vgames[1]))

C9_TeamTotalSettled ==
  (EngineDone /\ vin.bet_type = "team_total" /\ MatchesCompletedGame(vin, vgames)) =>
    VerificationOf(vout) =
      (IF 2 * PickedTeamScore(vin, MatchedGame(vin, vgames)) = vin.structured_bet.line
         THEN Outcome("push", None)
         ELSE WinIf(\/ /\ vin.structured_bet.side = "under"
                       /\ 2 * PickedTeamScore(vin, MatchedGame(vin, vgames))
                            < vin.structured_bet.line
                    \/ /\ vin.structured_bet.side = "over"
                       /\ 2 * PickedTeamScore(vin, MatchedGame(vin, vgames))
                            > vin.structured_bet.line))

PlayerPropAttempted ==
  /\ EngineDone
  /\ vin.bet_type = "player_prop"
  /\ "expert" \in DOMAIN vin
  /\ SupportedSport(ToUpper(Get(vin, "sport", "")))

\* C10 as stated: every player_prop bet in a supported sport settles to
\* status unsupported_stat with no result.
C10_PlayerPropUnsupportedStat ==
  PlayerPropAttempted => VerificationOf(vout) = Outcome("unsupported_stat", None)

\* C10 amended: every player_prop bet in a supported sport ends with no
\* result, never a win or loss; its status is international_hockey for a
\* hockey pick naming an international league, else no_games_found when no
\* games are fetched, else api_limitation or needs_manual_verification for
\* NFL and unsupported_bet_type for the other sports; unsupported_stat is
\* never produced.
C10_PlayerPropNeverSettled ==
  PlayerPropAttempted =>
    /\ VerificationOf(vout).result = None
    /\ VerificationOf(vout).status \in
         (IF IsIntlHockey(vin) THEN {"international_hockey"}
          ELSE IF vgames = <<>> THEN {"no_games_found"}
          ELSE IF ToUpper(vin.sport) = "NFL"
            THEN {"api_limitation", "needs_manual_verification"}
            ELSE {"unsupported_bet_type"})

\* C10, its case: the receiving-yards prop with the Bengals game fetched
C10_ChasePropNeedsManualCheck ==
  /\ PlayerPropAttempted
  /\ VerificationOf(vout) = Outcome("needs_manual_verification", None)

(***************************************************************************)
(* The aggregators: get_stats_from_multi_day_data (multi_day_dashboard.py),*)
(* get_stats_from_verified_data (real_dashboard.py),                       *)
(* get_stats_from_real_data (real_only_dashboard.py) and the expert        *)
(* breakdown of generate_results_report, with the loaders and the          *)
(* dashboard routes that call them.  A quotient wins / total * 100 is kept *)
(* exact, as the fraction [num, den].                                      *)
(***************************************************************************)
Percent(n, d) == IF d > 0 THEN [num |-> 100 * n, den |-> d] ELSE [num |-> 0, den |-> 1]

SameRatio(a, b) == a.num * b.den = b.num * a.den

\* bet.get('verification', {}).get('result') in ['win', 'loss']
HasWinLoss(bet) ==
  Get(Get(bet, "verification", NoOutcome), "result", None) \in {"win", "loss"}

CompletedIdx(bets) == {i \in 1..Len(bets) : HasWinLoss(bets[i])}

RECURSIVE CompletedBets(_)
CompletedBets(bets) ==
  IF bets = <<>> THEN <<>>
  ELSE (IF HasWinLoss(Head(bets)) THEN <<Head(bets)>> ELSE <<>>) \o CompletedBets(Tail(bets))

\* the bets the expert breakdown loop visits for one expert
ExpertIdx(bets, expert) == {i \in 1..Len(bets) : bets[i].expert = expert}

NumResult(bets, idx, result) ==
  Cardinality({i \in idx : bets[i].verification.result = result})

NumNotWin(bets, idx) ==
  Cardinality({i \in idx : bets[i].verification.result # "win"})

\* the 'sports' and 'bet_types' dicts of an expert: a win counts as a win,
\* anything else as a loss
Breakdown(bets, idx, key) ==
  [k \in {Get(bets[i], key, "Unknown") : i \in idx} |->
     [wins   |-> NumResult(bets, {i \in idx : Get(bets[i], key, "Unknown") = k}, "win"),
      losses |-> NumNotWin(bets, {i \in idx : Get(bets[i], key, "Unknown") = k})]]

\* the 'verification_status' dict of an expert: the bets with no win or
\* loss, counted by status
StatusCounts(bets, idx) ==
  [s \in {Get(bets[i].verification, "status", "unknown") : i \in idx \ CompletedIdx(bets)} |->
     Cardinality({i \in idx \ CompletedIdx(bets) :
                    Get(bets[i].verification, "status", "unknown") = s})]

\* the 'sports_summary' dict over the bets of idx
SportsSummary(bets, idx) ==
  [k \in {Get(bets[i], "sport", "Unknown") : i \in idx} |->
     [wins   |-> NumResult(bets, {i \in idx : Get(bets[i], "sport", "Unknown") = k}, "win"),
      losses |-> NumNotWin(bets, {i \in idx : Get(bets[i], "sport", "Unknown") = k}),
      total  |-> Cardinality({i \in idx : Get(bets[i], "sport", "Unknown") = k})]]

\* round(x, 1) of the quotient 100 * n / d, in tenths; a tie goes to the even
\* tenth
RoundTenths(n, d) ==
  IF d = 0 THEN 0
  ELSE LET q == (1000 * n) \div d
           r == (1000 * n) % d
       IN  IF 2 * r > d \/ (2 * r = d /\ q % 2 = 1) THEN q + 1 ELSE q

\* multi_day_dashboard.get_stats_from_multi_day_data, lines 71-123: the
\* accuracy with the expert's total (bets without a result included) for
\* its denominator
MultiDayExpert(bets, idx) ==
  [wins       |-> NumResult(bets, idx, "win"),
   losses     |-> NumResult(bets, idx, "loss"),
   total      |-> Cardinality(idx),
   verified   |-> NumResult(bets, idx, "win") + NumResult(bets, idx, "loss"),
   unverified |-> Cardinality(idx \ CompletedIdx(bets)),
   sports     |-> Breakdown(bets, idx, "sport"),
   bet_types  |-> Breakdown(bets, idx, "bet_type"),
   picks      |-> SelectSeq2(bets, idx),
   verification_status |-> StatusCounts(bets, idx),
   accuracy   |-> Percent(NumResult(bets, idx, "win"), Cardinality(idx))]

get_stats_from_multi_day_data(verified_bets) ==
  [by          |-> "get_stats_from_multi_day_data",
   total_picks |-> Cardinality(CompletedIdx(verified_bets)),
   wins        |-> NumResult(verified_bets, CompletedIdx(verified_bets), "win"),
   losses      |-> NumResult(verified_bets, CompletedIdx(verified_bets), "loss"),
   win_rate    |-> RoundTenths(NumResult(verified_bets, CompletedIdx(verified_bets), "win"),
                               Cardinality(CompletedIdx(verified_bets))),
   experts     |-> [e \in {verified_bets[i].expert : i \in 1..Len(verified_bets)} |->
                      MultiDayExpert(verified_bets, ExpertIdx(verified_bets, e))],
   sports_summary |-> SportsSummary(verified_bets, CompletedIdx(verified_bets))]

\* real_dashboard.get_stats_from_verified_data, lines 36-54: the expert
\* breakdown runs over the bets with a win or loss only
VerifiedExpert(bets, idx) ==
  [wins     |-> NumResult(bets, idx, "win"),
   losses   |-> NumNotWin(bets, idx),
   total    |-> Cardinality(idx),
   accuracy |-> Percent(NumResult(bets, idx, "win"), Cardinality(idx))]

get_stats_from_verified_data(verified_bets) ==
  [by          |-> "get_stats_from_verified_data",
   total_picks |-> Cardinality(CompletedIdx(verified_bets)),
   wins        |-> NumResult(verified_bets, CompletedIdx(verified_bets), "win"),
   losses      |-> NumResult(verified_bets, CompletedIdx(verified_bets), "loss"),
   win_rate    |-> RoundTenths(NumResult(verified_bets, CompletedIdx(verified_bets), "win"),
                               Cardinality(CompletedIdx(verified_bets))),
   experts     |-> [e \in {verified_bets[i].expert : i \in CompletedIdx(verified_bets)} |->
                      VerifiedExpert(verified_bets,
                                     ExpertIdx(verified_bets, e) \cap CompletedIdx(verified_bets))]]

\* real_only_dashboard.get_stats_from_real_data, lines 55-104: every bet
\* counts as verified, and as a loss unless it is a win
RealExpert(bets, idx) ==
  [wins       |-> NumResult(bets, idx, "win"),
   losses     |-> NumNotWin(bets, idx),
   total      |-> Cardinality(idx),
   verified   |-> Cardinality(idx),
   unverified |-> 0,
   sports     |-> Breakdown(bets, idx, "sport"),
   bet_types  |-> Breakdown(bets, idx, "bet_type"),
   picks      |-> SelectSeq2(bets, idx),
   accuracy   |-> Percent(NumResult(bets, idx, "win"), Cardinality(idx))]

get_stats_from_real_data(verified_bets) ==
  [by          |-> "get_stats_from_real_data",
   total_picks |-> Len(verified_bets),
   wins        |-> NumResult(verified_bets, DOMAIN verified_bets, "win"),
   losses      |-> NumResult(verified_bets, DOMAIN verified_bets, "loss"),
   win_rate    |-> RoundTenths(NumResult(verified_bets, DOMAIN verified_bets, "win"),
                               Len(verified_bets)),
   experts     |-> [e \in {verified_bets[i].expert : i \in 1..Len(verified_bets)} |->
                      RealExpert(verified_bets, ExpertIdx(verified_bets, e))],
   sports_summary |-> SportsSummary(verified_bets, DOMAIN verified_bets)]

\* generate_results_report, lines 470-509: nothing is reported when no bet
\* has a win or loss
ReportExpert(bets, idx) ==
  [wins     |-> NumResult(bets, idx, "win"),
   losses   |-> NumNotWin(bets, idx),
   accuracy |-> Percent(NumResult(bets, idx, "win"),
                        NumResult(bets, idx, "win") + NumNotWin(bets, idx))]

generate_results_report(verified_bets) ==
  [by      |-> "generate_results_report",
   experts |-> [e \in {verified_bets[i].expert : i \in CompletedIdx(verified_bets)} |->
                  ReportExpert(verified_bets,
                               ExpertIdx(verified_bets, e) \cap CompletedIdx(verified_bets))]]

\* the loaders: file is the verified_bets list of the results file
load_multi_day_verified_data(file) == CompletedBets(file)

load_real_verified_data(file) == file

load_real_only_verified_data(file) == CompletedBets(file)

\* the route '/' of multi_day_dashboard.py, lines 152-165
multi_day_dashboard(file) ==
  LET stats == get_stats_from_multi_day_data(load_multi_day_verified_data(file))
  IN  [stats EXCEPT !.by = "multi_day_dashboard",
                    !.experts = [e \in {x \in DOMAIN stats.experts : stats.experts[x].verified > 0} |->
                                   stats.experts[e]]]

\* the route '/' of real_dashboard.py, lines 67-68
real_dashboard(file) ==
  [get_stats_from_verified_data(load_real_verified_data(file)) EXCEPT !.by = "real_dashboard"]

\* the route '/' of real_only_dashboard.py, lines 133-134
real_only_dashboard(file) ==
  [get_stats_from_real_data(load_real_only_verified_data(file)) EXCEPT !.by = "real_only_dashboard"]

(***************************************************************************)
(* The lists of verified bets the aggregators are given.                   *)
(***************************************************************************)
StatsExperts == {"Sam Smith", "Ben Rasa"}

StatsOutcomes ==
  {Outcome("verified", "win"), Outcome("verified", "loss"), Outcome("team_not_found", None)}

StatsBet(expert, sport, outcome) ==
  [expert |-> expert, date |-> "2025-09-18", sport |-> sport,
   bet_type |-> IF sport = "MLB" THEN "spread" ELSE "moneyline",
   structured_bet |-> [type |-> "unknown", raw_text |-> "pick"],
   verification |-> outcome, verified_at |-> VerifyTime]

StatsBets ==
  {StatsBet(e, s, o) : e \in StatsExperts, s \in {"MLB", "NFL"}, o \in StatsOutcomes}

StatsInit ==
  /\ JobsIdle /\ VerifyIdle /\ BatchIdle /\ ParseIdle /\ RaceIdle
  /\ sbets \in SeqsUpTo(StatsBets, MaxStatsBets)
  /\ sout = [by |-> "none"]
  /\ spc = "input"

StatsMultiDay ==
  /\ spc = "input"
  /\ sout' = get_stats_from_multi_day_data(sbets)
  /\ spc' = "done"
  /\ UNCHANGED <<sbets, jobVars, verifyVars, batchVars, parseVars, raceVars>>

StatsVerified ==
  /\ spc = "input"
  /\ sout' = get_stats_from_verified_data(sbets)
  /\ spc' = "done"
  /\ UNCHANGED <<sbets, jobVars, verifyVars, batchVars, parseVars, raceVars>>

StatsReal ==
  /\ spc = "input"
  /\ sout' = get_stats_from_real_data(sbets)
  /\ spc' = "done"
  /\ UNCHANGED <<sbets, jobVars, verifyVars, batchVars, parseVars, raceVars>>

ResultsReport ==
  /\ spc = "input"
  /\ sout' = generate_results_report(sbets)
  /\ spc' = "done"
  /\ UNCHANGED <<sbets, jobVars, verifyVars, batchVars, parseVars, raceVars>>

MultiDayDashboardRoute ==
  /\ spc = "input"
  /\ sout' = multi_day_dashboard(sbets)
  /\ spc' = "done"
  /\ UNCHANGED <<sbets, jobVars, verifyVars, batchVars, parseVars, raceVars>>

RealDashboardRoute ==
  /\ spc = "input"
  /\ sout' = real_dashboard(sbets)
  /\ spc' = "done"
  /\ UNCHANGED <<sbets, jobVars, verifyVars, batchVars, parseVars, raceVars>>

RealOnlyDashboardRoute ==
  /\ spc = "input"
  /\ sout' = real_only_dashboard(sbets)
  /\ spc' = "done"
  /\ UNCHANGED <<sbets, jobVars, verifyVars, batchVars, parseVars, raceVars>>

StatsNext ==
  \/ StatsMultiDay
  \/ StatsVerified
  \/ StatsReal
  \/ ResultsReport
  \/ MultiDayDashboardRoute
  \/ RealDashboardRoute
  \/ RealOnlyDashboardRoute

SpecStats == StatsInit /\ [][StatsNext]_vars

(***************************************************************************)
(* The scrape job and the verify job invoked at the same time, as two      *)
(* processes on the one store file.  Each job reads the file once          *)
(* (load_daily_picks_database), changes its copy in memory, and writes the *)
(* copy back (save_daily_picks_database); no lock is taken.  A read and a  *)
(* write of the file are one step each; what a job does between them is    *)
(* local to it.                                                            *)
(***************************************************************************)
\* a store written by an earlier scrape, its pick pending
RaceStore ==
  ScrapedDatabase(EmptyDatabase(0),
                  FilteredPicks(ScrapedBets(<<ScrapedPick("Ben Rasa", "<b>LAD -1.5</b>", None, 0)>>, 0)),
                  0)

\* a save that reads the file again and keeps what the copy lacks: the
\* picks beyond the copy's, and the outcomes on picks the copy has pending
SaveMergingStore(file, data) ==
  LET stored == IF file.exists THEN file.data.picks ELSE <<>>
      merged == [i \in 1..(IF Len(stored) > Len(data.picks) THEN Len(stored) ELSE Len(data.picks)) |->
                   IF i > Len(data.picks) THEN stored[i]
                   ELSE IF i <= Len(stored) /\ IsPending(data.picks[i]) THEN stored[i]
                   ELSE data.picks[i]]
  IN  SavedFile([data EXCEPT !.picks = merged, !.total_picks = Len(merged)])

\* json.dump over the file opened with 'w': what the file held is gone
save_daily_picks_database(file, data) == SavedFile(data)

RaceInit ==
  /\ dailyFile = SavedFile(RaceStore)
  /\ dashboardFile = NoFile
  /\ now = 0
  /\ lastJob = "none"
  /\ logged = 0
  /\ VerifyIdle /\ BatchIdle /\ ParseIdle /\ StatsIdle
  /\ rpc = [job \in {"scrape", "verify"} |-> "idle"]
  /\ rmem = [job \in {"scrape", "verify"} |-> EmptyDatabase(0)]
  /\ rlog = <<>>

\* scrape_daily_picks, lines 52-104: the scraper is asked, and unless it has
\* nothing the store is loaded and the filtered picks are added to the copy
RaceScrapeLoad ==
  /\ rpc["scrape"] = "idle"
  /\ \E picks \in ScraperResults(now) :
     \E filtered \in {FilteredPicks(ScrapedBets(picks, now))} :
       IF picks = <<>>
         THEN /\ rpc' = [rpc EXCEPT !["scrape"] = "returned"]
              /\ UNCHANGED <<rmem, rlog>>
         ELSE /\ rmem' = [rmem EXCEPT !["scrape"] =
                            ScrapedDatabase(load_daily_picks_database(dailyFile, now), filtered, now)]
              /\ rlog' = Append(rlog, "scrape_load")
              /\ rpc' = [rpc EXCEPT !["scrape"] = "loaded"]
  /\ UNCHANGED <<jobVars, verifyVars, batchVars, parseVars, statsVars>>

\* scrape_daily_picks, line 107
RaceScrapeSave ==
  /\ rpc["scrape"] = "loaded"
  /\ dailyFile' = save_daily_picks_database(dailyFile, rmem["scrape"])
  /\ rlog' = Append(rlog, "scrape_save")
  /\ rpc' = [rpc EXCEPT !["scrape"] = "saved"]
  /\ UNCHANGED <<dashboardFile, now, lastJob, logged, rmem,
                 verifyVars, batchVars, parseVars, statsVars>>

\* scrape_daily_picks, line 110
RaceScrapeDashboard ==
  /\ rpc["scrape"] = "saved"
  /\ dashboardFile' = update_dashboard_data(dailyFile, now)
  /\ rpc' = [rpc EXCEPT !["scrape"] = "done"]
  /\ UNCHANGED <<dailyFile, now, lastJob, logged, rmem, rlog,
                 verifyVars, batchVars, parseVars, statsVars>>

\* verify_pending_picks, lines 124-132
RaceVerifyLoad ==
  /\ rpc["verify"] = "idle"
  /\ \E daily_data \in {load_daily_picks_database(dailyFile, now)} :
       /\ rmem' = [rmem EXCEPT !["verify"] = daily_data]
       /\ rlog' = Append(rlog, "verify_load")
       /\ rpc' = [rpc EXCEPT !["verify"] =
                    IF \A i \in 1..Len(daily_data.picks) : ~IsPending(daily_data.picks[i])
                      THEN "returned" ELSE "loaded"]
  /\ UNCHANGED <<jobVars, verifyVars, batchVars, parseVars, statsVars>>

\* verify_pending_picks, lines 136-165: the loop over the pending picks of
\* the copy
RaceVerifyPicks ==
  /\ rpc["verify"] = "loaded"
  /\ \E board \in [PendingRequests(rmem["verify"]) -> JobGameLists] :
       rmem' = [rmem EXCEPT !["verify"] = VerifiedDatabase(rmem["verify"], board, now)]
  /\ rpc' = [rpc EXCEPT !["verify"] = "verified"]
  /\ UNCHANGED <<rlog, jobVars, verifyVars, batchVars, parseVars, statsVars>>

\* verify_pending_picks, line 166
RaceVerifySave ==
  /\ rpc["verify"] = "verified"
  /\ dailyFile' = save_daily_picks_database(dailyFile, rmem["verify"])
  /\ rlog' = Append(rlog, "verify_save")
  /\ rpc' = [rpc EXCEPT !["verify"] = "saved"]
  /\ UNCHANGED <<dashboardFile, now, lastJob, logged, rmem,
                 verifyVars, batchVars, parseVars, statsVars>>

\* verify_pending_picks, line 169
RaceVerifyDashboard ==
  /\ rpc["verify"] = "saved"
  /\ dashboardFile' = update_dashboard_data(dailyFile, now)
  /\ rpc' = [rpc EXCEPT !["verify"] = "done"]
  /\ UNCHANGED <<dailyFile, now, lastJob, logged, rmem, rlog,
                 verifyVars, batchVars, parseVars, statsVars>>

RaceNext ==
  \/ RaceScrapeLoad
  \/ RaceScrapeSave
  \/ RaceScrapeDashboard
  \/ RaceVerifyLoad
  \/ RaceVerifyPicks
  \/ RaceVerifySave
  \/ RaceVerifyDashboard

SpecRace == RaceInit /\ [][RaceNext]_vars

(***************************************************************************)
(* scrape_daily_picks, lines 59-94, on one pick of the scraper: the pick   *)
(* is parsed, its bets are stamped and the filter decides which of them go *)
(* to the store.                                                           *)
(***************************************************************************)
ScrapedExperts ==
  {"Sam Smith Free Expert Pick", "sam smith", "Sam", "Jake", "Eytan Shander Jr",
   "Chef T", "Unknown", "OddsShopper"}

ScrapedSports == {None, "NFL", "NBA", "Soccer", "Unknown"}

ScrapedTexts == {"<b>LAD -1.5</b>", "KC ML", "good luck", "soccer: 2 goals", ""}

FilterInit ==
  /\ JobsIdle /\ VerifyIdle /\ BatchIdle /\ StatsIdle /\ RaceIdle
  /\ ppc = "scraped"
  /\ praw \in {[expert |-> e, pick |-> t, sport |-> s, date |-> "2025-09-18"] :
                 e \in ScrapedExperts, t \in ScrapedTexts, s \in ScrapedSports}
  /\ pout = <<>>

StampAndFilter ==
  /\ ppc = "scraped"
  /\ pout' = FilteredPicks(ScrapedBets(<<praw>>, 0))
  /\ ppc' = "filtered"
  /\ UNCHANGED <<praw, jobVars, verifyVars, batchVars, statsVars, raceVars>>

FilterNext == StampAndFilter

SpecFilter == FilterInit /\ [][FilterNext]_vars

(***************************************************************************)
(* Properties of the completion gate, team matching and alias resolution.  *)
(***************************************************************************)
\* a spread bet with a line, or a moneyline bet, that verify_bet hands to
\* verify_spread_bet or verify_moneyline_bet
SettledKind(pick) ==
  /\ "expert" \in DOMAIN pick
  /\ SupportedSport(ToUpper(Get(pick, "sport", "")))
  /\ ~IsIntlHockey(pick)
  /\ \/ pick.bet_type = "moneyline"
     \/ pick.bet_type = "spread" /\ "line" \in DOMAIN pick.structured_bet

\* the bet's team matches a game that is not completed (flag false or
\* missing); the scores it carries, if any, are numbers
MatchesIncompleteGame(pick, games) ==
  /\ SettledKind(pick)
  /\ MatchedGames(pick, games) # {}
  /\ ~Get(MatchedGame(pick, games), "completed", FALSE)
  /\ IsIntLiteral(Get(HomeTeam(MatchedGame(pick, games)), "score", "0"))
  /\ IsIntLiteral(Get(AwayTeam(MatchedGame(pick, games)), "score", "0"))

\* C11: a spread or moneyline bet whose matched game is not completed (flag
\* false or missing) gets status game_not_completed with no result, whatever
\* the scores; a win or loss comes only from a completed game (verify_bet,
\* and verify_mlb_pick of the checker).
C11_IncompleteGameNotSettled ==
  /\ (EngineDone /\ MatchesIncompleteGame(vin, vgames)) =>
       VerificationOf(vout) = Outcome("game_not_completed", None)
  /\ (EngineDone /\ VerificationOf(vout).result \in {"win", "loss"}) =>
       \E i \in 1..Len(vgames) : Get(vgames[i], "completed", FALSE)
  /\ (CheckerDone /\ vin.sport = "MLB" /\ vin.bet_type \in {"moneyline", "spread"}
      /\ vgames # <<>> /\ vin.team \in {vgames[1].home_team, vgames[1].away_team}
      /\ ~vgames[1].completed) =>
       vout.result = Outcome("game_not_completed", None)
  /\ (CheckerDone /\ vout.result.result \in {"win", "loss"}) =>
       vgames # <<>> /\ vgames[1].completed

\* the teams whose games the scoreboard of a sport lists
LeagueTeams(sport) ==
  IF sport = "MLB"
    THEN {"Kansas City Royals", "Detroit Tigers", "Milwaukee Brewers", "Los Angeles Dodgers"}
  ELSE IF sport \in {"NHL", "HOCKEY"} THEN {"New York Rangers", "New York Islanders"}
  ELSE IF sport = "NFL" THEN {"Cincinnati Bengals", "Kansas City Chiefs"}
  ELSE {}

\* the games were fetched from the scoreboard of the pick's own sport
FetchedFromLeague(pick, games) ==
  \A i \in 1..Len(games) : \A c \in 1..Len(games[i].competitors) :
     Get(games[i].competitors[c], "displayName", "") \in LeagueTeams(ToUpper(Get(pick, "sport", "")))

\* no fetched game has a team name containing an alias fragment of the
\* bet's team code
NoGameNamesTeam(pick, games) ==
  \A i \in 1..Len(games) : ~TeamFound(games[i], TeamKeywords(pick))

\* the attempt ended without an exception, with this outcome
Settled(pick, outcome) ==
  /\ Get(pick, "verification_status", None) = "completed"
  /\ VerificationOf(pick) = outcome

OwnSportSettlement(pick, games) ==
  VerifySpreadBet(
    [sport |-> pick.sport,
     structured_bet |->
       [team |-> Get(pick.structured_bet, "team", ""),
        line |-> IF pick.bet_type = "moneyline" THEN 0 ELSE pick.structured_bet.line]],
    games)

\* C13: the alias fragments that match a spread or moneyline bet come from
\* the table of the bet's own sport, never from another sport's table: the
\* bet's outcome is the one its own sport's fragments give.
C13_AliasesFromOwnSport ==
  (EngineDone /\ SettledKind(vin) /\ vgames # <<>>) =>
    IF OwnSportSettlement(vin, vgames).exc
      THEN Get(vout, "verification_status", None) = "error"
      ELSE Settled(vout, OwnSportSettlement(vin, vgames).value)

(***************************************************************************)
(* Aggregation.                                                            *)
(***************************************************************************)
AggregatorDone == spc = "done"

InputExperts == {sbets[i].expert : i \in 1..Len(sbets)}

NoSettledBet(expert) ==
  \A i \in 1..Len(sbets) : sbets[i].expert = expert => ~HasWinLoss(sbets[i])

\* C14: every expert of the input is in the per-expert statistics of every
\* stats function, loader and route, and an expert none of whose bets has a
\* win or loss is there with wins = 0 and losses = 0.
C14_EveryInputExpertKept ==
  AggregatorDone =>
    \A e \in InputExperts :
      /\ e \in DOMAIN sout.experts
      /\ NoSettledBet(e) => sout.experts[e].wins = 0 /\ sout.experts[e].losses = 0

\* C15: in every expert record an aggregator computes, bets with a null
\* result in the input or not, accuracy is 100 * wins / (wins + losses),
\* and 0 when wins + losses = 0.
C15_AccuracyOverSettled ==
  AggregatorDone =>
    \A e \in DOMAIN sout.experts :
      SameRatio(sout.experts[e].accuracy,
                Percent(sout.experts[e].wins,
                        sout.experts[e].wins + sout.experts[e].losses))

(***************************************************************************)
(* The frame of a verification run.                                        *)
(***************************************************************************)
OutcomeFields == {"verification", "verified_at", "verification_status", "verification_error"}

\* new is old but for the outcome fields
SameButOutcome(old, new) ==
  /\ DOMAIN old \ OutcomeFields = DOMAIN new \ OutcomeFields
  /\ \A k \in DOMAIN old \ OutcomeFields : new[k] = old[k]

\* C16: a verification run changes on the picks it processes (the pending
\* ones) the outcome fields only: expert, sport, bet_type, raw_pick_text,
\* structured_bet, original_data and every other field are as before; the
\* picks it does not process are as before entirely.
C16_VerificationFrame ==
  [][lastJob' \in {"verify", "verify_nothing"} =>
       /\ Len(StoredPicks') = Len(StoredPicks)
       /\ \A i \in 1..Len(StoredPicks) :
            /\ SameButOutcome(StoredPicks[i], StoredPicks'[i])
            /\ {"expert", "sport", "bet_type", "raw_pick_text", "structured_bet",
                "original_data"} \subseteq DOMAIN StoredPicks'[i]
            /\ ~IsPending(StoredPicks[i]) => StoredPicks'[i] = StoredPicks[i]]_vars

\* a run that processed one pick and left a pick of an earlier run alone
C16_ProcessedAndSkipped ==
  /\ lastJob = "verify"
  /\ \E i, j \in 1..Len(StoredPicks) :
       /\ "verified_at" \in DOMAIN StoredPicks[i]
       /\ "verified_at" \in DOMAIN StoredPicks[j]
       /\ StoredPicks[i].verified_at < StoredPicks[j].verified_at
       /\ StoredPicks[j].verified_at = now

(***************************************************************************)
(* A fetch that fails.                                                     *)
(***************************************************************************)
FetchFailed == vresp.kind = "exception" \/ (vresp.kind = "response" /\ vresp.status_code # 200)

CleanupRan == lastJob' \in {"cleanup", "cleanup_nothing"} /\ now' = now

\* the store after the sweep is the picks of keep, in their order
StoreBecomes(keep) ==
  /\ Len(StoredPicks') = Cardinality(keep)
  /\ \A i \in keep : StoredPicks'[Cardinality({k \in keep : k <= i})] = StoredPicks[i]

ScrapeRan == lastJob' \in {"scrape", "scrape_nothing"} /\ now' = now

\* a pick as the scrape job of this instant stores it
NewlyScraped(pick) == IsPending(pick) /\ pick.scraped_time = now

\* C20: after scrape_daily_picks every pick the store held is still there,
\* unmodified and at its position, followed by the newly filtered picks,
\* all of them (as many as the job reports to have added): nothing is
\* deduplicated, a pick the store already holds is appended once more.
C20_ScrapeAppendsOnly ==
  [][ScrapeRan =>
       /\ Len(StoredPicks') = Len(StoredPicks) + logged'
       /\ SubSeq(StoredPicks', 1, Len(StoredPicks)) = StoredPicks
       /\ \A j \in Len(StoredPicks) + 1 .. Len(StoredPicks') :
            NewlyScraped(StoredPicks'[j])]_vars

\* the same content scraped twice and stored twice
C20_StoredTwice ==
  /\ lastJob = "scrape" /\ logged > 0
  /\ \E i, j \in 1..Len(StoredPicks) :
       /\ i < j
       /\ StoredPicks[i].raw_pick_text = StoredPicks[j].raw_pick_text
       /\ StoredPicks[i].expert = StoredPicks[j].expert
       /\ StoredPicks[i].date = StoredPicks[j].date

(***************************************************************************)
(* The two jobs at the same time.                                          *)
(***************************************************************************)
BothSaved == rpc["scrape"] \in {"saved", "done"} /\ rpc["verify"] \in {"saved", "done"}

LogPosition(event) == CHOOSE i \in 1..Len(rlog) : rlog[i] = event

Earlier(a, b) == LogPosition(a) < LogPosition(b)

\* the store lacks picks the scrape job appended
ScrapedPicksMissing == Len(StoredPicks) < Len(rmem["scrape"].picks)

\* the store has pending a pick the verify job wrote an outcome on
OutcomesMissing ==
  \E i \in 1..Len(rmem["verify"].picks) :
    /\ ~IsPending(rmem["verify"].picks[i])
    /\ i <= Len(StoredPicks) /\ IsPending(StoredPicks[i])

ScrapeAddedPicks == Len(rmem["scrape"].picks) > Len(RaceStore.picks)

\* C19: neither job takes a lock between its load and its save, and once
\* both have saved the store has lost an update exactly when the two
\* load-to-save windows overlapped: the picks the scrape appended are
\* missing iff the verify job loaded before the scrape's save and saved
\* after it, the outcomes the verify job wrote are missing iff the scrape
\* loaded before the verify job's save and saved after it.
C19_OverlapLosesUpdate ==
  BothSaved =>
    /\ ScrapedPicksMissing <=>
         /\ ScrapeAddedPicks
         /\ Earlier("verify_load", "scrape_save")
         /\ Earlier("scrape_save", "verify_save")
    /\ OutcomesMissing <=>
         /\ Earlier("scrape_load", "verify_save")
         /\ Earlier("verify_save", "scrape_save")

\* both jobs ran to their end and the picks of the scrape are gone
C19_ScrapedPicksLost ==
  /\ rpc["scrape"] = "done" /\ rpc["verify"] = "done"
  /\ ScrapedPicksMissing

(***************************************************************************)
(* The filter of the scrape job.                                           *)
(***************************************************************************)
CanonicalExperts == {TargetExperts[k] : k \in 1..Len(TargetExperts)}

TrackedSports == {SportsFilter[k] : k \in 1..Len(SportsFilter)}

\* the expert name parse_pick hands to the filter
ParsedExpertName == Strip(Replace(praw.expert, " Free Expert Pick", ""))

\* the name and a canonical name, lowercased, one inside the other
MatchesCanonical(name) ==
  \E c \in CanonicalExperts :
    Contains(ToLower(name), ToLower(c)) \/ Contains(ToLower(c), ToLower(name))

\* C21: every pick scrape_daily_picks stores has a canonical target expert
\* name for its expert and a tracked sport; a parsed pick is stored only if
\* its scraped expert name matches a canonical name, and none is stored
\* when the name matches no canonical name.
C21_StoredPicksCanonical ==
  ppc = "filtered" =>
    /\ \A i \in 1..Len(pout) :
         /\ pout[i].expert \in CanonicalExperts
         /\ pout[i].sport \in TrackedSports
    /\ pout # <<>> => MatchesCanonical(ParsedExpertName)
    /\ ~MatchesCanonical(ParsedExpertName) => pout = <<>>

\* a pick scraped under a fragment of a name, stored under the canonical name
C21_FragmentStoredCanonical ==
  /\ ppc = "filtered"
  /\ praw.expert = "Sam"
  /\ pout # <<>> /\ pout[1].expert = "Sam Smith"

(***************************************************************************)
(* The order of the extracted bets.                                        *)
(***************************************************************************)
\* the index at which sub first occurs in text, 0 when it does not
FirstIndexOf(text, sub) ==
  LET at == {s \in 1..(Len(text) - Len(sub) + 1) : SubSeq(text, s, s + Len(sub) - 1) = sub}
  IN  IF at = {} THEN 0 ELSE CHOOSE s \in at : \A other \in at : s <= other

ExtractedBets == {i \in 1..Len(pout) : pout[i].bet_type # "unknown"}

\* C22: the bets extract_bet_from_text returns are in the order of their
\* matches in the text, the earlier match first, whichever pattern family
\* produced them.
C22_BetsInTextOrder ==
  ppc = "done" =>
    \A i, j \in ExtractedBets :
      i < j => FirstIndexOf(clean_html(praw.pick), pout[i].structured_bet.raw_text)
                 <= FirstIndexOf(clean_html(praw.pick), pout[j].structured_bet.raw_text)

(***************************************************************************)
(* The order of the checks of determine_sport.                             *)
(***************************************************************************)
\* the picks of the output whose sport determine_sport decided: the
\* extracted bets, and the fallback of a pick scraped without a sport
SportDetermined ==
  {i \in 1..Len(pout) : pout[i].bet_type # "unknown" \/ praw.sport = None}

BetTextOf(pick) ==
  IF pick.bet_type = "unknown" THEN "" ELSE ToUpper(pick.structured_bet.raw_text)

\* the sport the abbreviation tables give, None when no abbreviation decides
AbbrevSport(bet_text) ==
  IF \E a \in {"MIL", "LAD", "ATH", "TOR", "TB", "NYY", "BOS", "BAL"} : Contains(bet_text, a)
    THEN "MLB"
  ELSE IF \E a \in {"MIA", "BUF", "NE", "NYJ", "PIT", "BAL", "CIN", "CLE"} : Contains(bet_text, a)
    THEN "NFL"
  ELSE None

SportKeywords ==
  << [sport |-> "NFL", words |-> {"nfl", "receiving yards", "rush yds", "touchdown", "quarterback"}],
     [sport |-> "MLB", words |-> {"mlb", "baseball", "home run", "rbi", "strikeout", "f5"}],
     [sport |-> "NBA", words |-> {"nba", "basketball", "points", "rebounds", "assists"}],
     [sport |-> "Soccer", words |-> {"soccer", "goal", "la liga", "bundesliga", "champions league"}],
     [sport |-> "College Football", words |-> {"college", "ncaa", "cfb"}],
     [sport |-> "Hockey", words |-> {"hockey", "nhl", "puck"}] >>

HasKeyword(k, text_lower) == \E w \in SportKeywords[k].words : Contains(text_lower, w)

\* the sport of the first entry among candidates, Unknown when there is none
FirstSport(candidates) ==
  IF candidates = {} THEN "Unknown"
  ELSE SportKeywords[CHOOSE k \in candidates : \A other \in candidates : k <= other].sport

\* the sport a recap text is given before the keyword scan, None otherwise
RecapSport(text_lower) ==
  IF ~Contains(text_lower, "recap") THEN None
  ELSE IF \E w \in {"mlb", "f5", "baseball"} : Contains(text_lower, w) THEN "MLB"
  ELSE IF \E w \in {"nfl", "1h", "rush yds"} : Contains(text_lower, w) THEN "NFL"
  ELSE None

\* C23 as stated: an abbreviation in the bet's raw text decides the sport;
\* otherwise the first sport whose keyword set has a member in the
\* lowercased text; otherwise Unknown.
C23_AbbrevThenFirstKeyword ==
  ppc = "done" =>
    \A i \in SportDetermined :
      pout[i].sport =
        (IF AbbrevSport(BetTextOf(pout[i])) # None THEN AbbrevSport(BetTextOf(pout[i]))
         ELSE FirstSport({k \in 1..Len(SportKeywords) :
                            HasKeyword(k, ToLower(clean_html(praw.pick)))}))

\* C23 amended: an abbreviation in the bet's raw text decides the sport (the
\* MLB codes but KC, CLE, DET first, then the NFL codes); otherwise a text
\* with 'recap' is MLB beside mlb, f5 or baseball and else NFL beside nfl, 1h
\* or rush yds; otherwise the first sport whose keyword set has a member in
\* the lowercased text, the NBA set being passed over when the text has
\* 'football'; otherwise Unknown.
C23_AbbrevRecapThenKeyword ==
  ppc = "done" =>
    \A i \in SportDetermined :
      pout[i].sport =
        (IF AbbrevSport(BetTextOf(pout[i])) # None THEN AbbrevSport(BetTextOf(pout[i]))
         ELSE IF RecapSport(ToLower(clean_html(praw.pick))) # None
           THEN RecapSport(ToLower(clean_html(praw.pick)))
         ELSE FirstSport({k \in 1..Len(SportKeywords) :
                            /\ HasKeyword(k, ToLower(clean_html(praw.pick)))
                            /\ SportKeywords[k].sport = "NBA"
                                 => ~Contains(ToLower(clean_html(praw.pick)), "football")}))

\* a text with 'points' beside 'football' given to college football
C23_PointsBesideFootball ==
  /\ ppc = "done"
  /\ \E i \in SportDetermined :
       /\ Contains(ToLower(clean_html(praw.pick)), "points")
       /\ pout[i].sport = "College Football"

(***************************************************************************)
(* The bets of the five pattern families.                                  *)
(***************************************************************************)
\* the bet type the claim gives to a match of each family, in listed order
FamilyType == <<"player_prop", "spread", "moneyline", "team_total", "player_prop">>

\* the texts the matches of family p cover in the cleaned pick text
FamilyMatches(p) ==
  LET text == clean_html(praw.pick)
      ms   == FindIter(p, text, 1)
  IN  {SubSeq(text, ms[k].start, ms[k].end - 1) : k \in 1..Len(ms)}

\* C24: every match of each of the five pattern families yields a bet of
\* the family's type, the abbreviated player-prop family a player_prop bet
\* and the team-total family a team_total bet.
C24_EveryFamilyYieldsBet ==
  ppc = "done" =>
    \A p \in 1..Len(Patterns) :
      \A raw \in FamilyMatches(p) :
        \E i \in 1..Len(pout) :
          /\ pout[i].bet_type = FamilyType[p]
          /\ pout[i].structured_bet.raw_text = raw

(***************************************************************************)
(* The result of every outcome verify_bet returns.                         *)
(***************************************************************************)
\* verify_bet returned an outcome for the pick, which the orchestrator stored
EngineReturned ==
  /\ EngineDone
  /\ Get(vout, "verification_status", None) = "completed"

\* C25: an outcome verify_bet returns has a result of win or loss exactly
\* when its status is 'verified', and a null result under any other status.
C25_ResultIffVerified ==
  EngineReturned =>
    /\ VerificationOf(vout).result \in {"win", "loss"}
         <=> VerificationOf(vout).status = "verified"
    /\ VerificationOf(vout).status # "verified" => VerificationOf(vout).result = None

\* an unfinished game of the picked team: the outcome has no result
C25_UnfinishedGameNoResult ==
  /\ EngineReturned
  /\ VerificationOf(vout).status = "game_not_completed"
  /\ VerificationOf(vout).result = None

(***************************************************************************)
(* Pending picks across the jobs.                                          *)
(***************************************************************************)
PendingIn(picks) == {i \in 1..Len(picks) : IsPending(picks[i])}

\* the step is a run of verify_pending_picks that found pending picks
VerifyRan == lastJob' = "verify" /\ now' = now /\ PendingIn(StoredPicks) # {}

\* C26: a run of verify_pending_picks leaves every pick that was pending at
\* its start 'completed' or 'error' in the saved store, which then holds no
\* pending pick; only scrape_daily_picks adds pending picks to the store.
C26_VerifyLeavesNoPending ==
  [][ /\ VerifyRan =>
           /\ Len(StoredPicks') = Len(StoredPicks)
           /\ \A i \in PendingIn(StoredPicks) :
                Get(StoredPicks'[i], "verification_status", None) \in {"completed", "error"}
           /\ PendingIn(StoredPicks') = {}
      /\ Cardinality(PendingIn(StoredPicks')) > Cardinality(PendingIn(StoredPicks))
           => lastJob' = "scrape" /\ now' = now ]_vars

\* a verification run behind which a pick is stored without a win or loss
C26_VerifiedWithoutResult ==
  /\ lastJob = "verify"
  /\ \E i \in 1..Len(StoredPicks) : NonFinal(StoredPicks[i])
  /\ PendingIn(StoredPicks) = {}

(***************************************************************************)
(* The dashboard snapshot beside the store.                                *)
(***************************************************************************)
\* C27: after any sequence of scrape, verify and cleanup jobs run one at a
\* time the dashboard snapshot agrees with the saved store: verified_bets is
\* the store's completed picks with a win or loss, pending_verification the
\* number of its pending picks, total_picks_collected its total_picks.
C27_DashboardAgreesWithStore ==
  dailyFile.exists /\ dashboardFile.exists =>
    /\ dashboardFile.data.verified_bets =
         SelectSeq2(StoredPicks, {i \in 1..Len(StoredPicks) : HasResult(StoredPicks[i])})
    /\ dashboardFile.data.pending_verification = Cardinality(PendingIn(StoredPicks))
    /\ dashboardFile.data.total_picks_collected = dailyFile.data.total_picks

(***************************************************************************)
(* The side verify_spread_bet settles a bet on.                            *)
(***************************************************************************)
\* the fetched games one of whose competitors has a fragment in its name
GamesNaming(pick, games) ==
  {i \in 1..Len(games) : TeamFound(games[i], TeamKeywords(pick))}

FirstGameNaming(pick, games) == games[SetMin(GamesNaming(pick, games))]

\* a spread bet that verify_spread_bet settles on a completed game listing a
\* home and an away competitor
SpreadSettled ==
  /\ EngineDone /\ vin.bet_type = "spread"
  /\ "line" \in DOMAIN vin.structured_bet
  /\ MatchesCompletedGame(vin, vgames)
  /\ HomeIdx(FirstGameNaming(vin, vgames)) # {}
  /\ AwayIdx(FirstGameNaming(vin, vgames)) # {}

FragmentsMatch(comp) == AnyKeywordIn(TeamKeywords(vin), CompName(comp))

\* C28: verify_spread_bet uses the first fetched game with a competitor the
\* alias fragments match; when they match the home name the bet is settled
\* as a home bet, also when they match the away name as well, and when they
\* match the away name only the away score is the picked score.
C28_SettledOnMatchedSide ==
  SpreadSettled =>
    LET game == FirstGameNaming(vin, vgames)
        home == IntOf(HomeTeam(game).score)
        away == IntOf(AwayTeam(game).score)
    IN  IF FragmentsMatch(HomeTeam(game))
          THEN VerificationOf(vout) = WinIf(2 * home + vin.structured_bet.line > 2 * away)
          ELSE /\ FragmentsMatch(AwayTeam(game))
               /\ VerificationOf(vout) = WinIf(2 * away + vin.structured_bet.line > 2 * home)

\* the Islanders visiting the Rangers: 'new york' is in both names, and the
\* bet on NYI +1.5 wins with the home side's score against a shutout loss
C28_BothNamesMatchHomeSettled ==
  /\ SpreadSettled
  /\ vin.structured_bet.team = "NYI"
  /\ FragmentsMatch(HomeTeam(FirstGameNaming(vin, vgames)))
  /\ FragmentsMatch(AwayTeam(FirstGameNaming(vin, vgames)))
  /\ IntOf(AwayTeam(FirstGameNaming(vin, vgames)).score) = 0
  /\ IntOf(HomeTeam(FirstGameNaming(vin, vgames)).score) = 2
  /\ VerificationOf(vout) = Outcome("verified", "win")

(***************************************************************************)
(* The date of the games each batch loop asks for.                         *)
(***************************************************************************)
\* the games the scoreboard answers for the bet's sport on the date
GamesOn(bet, date) ==
  bboard[<<Endpoint(ToUpper(Get(bet, "sport", ""))), Replace(date, "-", "")>>]

OwnDate(pick) == IF "date" \in DOMAIN pick THEN pick.date ELSE pick.scraped_date

\* C29: verify_all_bets verifies every bet of the file against the games of
\* the first bet's date, whatever the bet's own date; verify_pending_picks
\* verifies each pick against the games of its own date, or of its
\* scraped_date when it has no date.
C29_DateOfRequests ==
  bpc = "done" =>
    /\ bout.loop = "verify_all_bets" =>
         \A i \in 1..Len(bout.bets) :
           bout.bets[i].verification =
             VerifyBet(bbets[i], GamesOn(bbets[i], Get(bbets[1], "date", ""))).value
    /\ bout.loop = "verify_pending_picks" =>
         \A i \in 1..Len(bout.bets) :
           Get(bout.bets[i], "verification_status", None) = "completed" =>
             bout.bets[i].verification =
               VerifyBet(bbets[i], GamesOn(bbets[i], OwnDate(bbets[i]))).value

\* a bet of another day settled on a game of the first bet's day although
\* the scoreboard has no game on the bet's own day
C29_SettledOnFirstBetsDay ==
  /\ bpc = "done" /\ bout.loop = "verify_all_bets"
  /\ Len(bout.bets) = 2
  /\ "date" \in DOMAIN bbets[2] /\ "date" \in DOMAIN bbets[1]
  /\ bbets[2].date # bbets[1].date
  /\ GamesOn(bbets[2], bbets[2].date) = <<>>
  /\ bout.bets[2].verification.status = "verified"

(***************************************************************************)
(* The breakdowns of an expert beside the expert's totals.                 *)
(***************************************************************************)
\* the sum of a count over the entries of a breakdown
RECURSIVE SumOfKeys(_, _, _)
SumOfKeys(breakdown, keys, field) ==
  IF keys = {} THEN 0
  ELSE LET k == CHOOSE x \in keys : TRUE
       IN  breakdown[k][field] + SumOfKeys(breakdown, keys \ {k}, field)

SumOf(breakdown, field) == SumOfKeys(breakdown, DOMAIN breakdown, field)

\* C30: in the statistics of get_stats_from_multi_day_data and
\* get_stats_from_real_data, bets with a null result in the input or not,
\* the per-sport wins and losses of an expert add up to the expert's wins
\* and losses, and so do the per-bet-type ones.
C30_BreakdownsAddUp ==
  (spc = "done" /\ sout.by \in {"get_stats_from_multi_day_data", "get_stats_from_real_data"}) =>
    \A e \in DOMAIN sout.experts :
      /\ SumOf(sout.experts[e].sports, "wins") = sout.experts[e].wins
      /\ SumOf(sout.experts[e].sports, "losses") = sout.experts[e].losses
      /\ SumOf(sout.experts[e].bet_types, "wins") = sout.experts[e].wins
      /\ SumOf(sout.experts[e].bet_types, "losses") = sout.experts[e].losses
====
